---- MODULE Spec2Model ----
(***************************************************************************)
(* Chunk-id encoder of hub/core/meta/encode/chunk_id.py.                   *)
(*                                                                         *)
(* ChunkIdEncoder keeps one numpy array `_encoded_ids` of uint64 rows      *)
(* [chunk_id, last_index].  The arithmetic below is numpy 1.x arithmetic,  *)
(* the one the code is written for (np.array([[id, -1]], dtype=np.uint64)  *)
(* wraps the -1 to the all-ones word; under numpy 2 that very line raises  *)
(* OverflowError and no encoder can hold a row):                           *)
(*   - uint64 (+) uint64 wraps modulo the word size;                       *)
(*   - a uint64 scalar (+) a Python int is computed in float64, so it does *)
(*     not wrap and the result is rounded to 53 significant bits.          *)
(***************************************************************************)
EXTENDS Integers, Sequences, FiniteSets, TLC

VARIABLES
    encoded_ids,  \* self._encoded_ids: None, or the rows <<chunk_id, last_index>>
    ledger,       \* history: per generate_chunk_id() call, what was registered to it
    before,       \* history: self._encoded_ids as it was when the last call began
    call,         \* history: the last call, its argument and its outcome
    naming,       \* a chunk id on its way to its storage name and back
    chunk,        \* a BaseChunk: its thresholds, num_dims, data bytes and headers
    tensor_meta,  \* the TensorMeta the chunk was constructed with
    chunk_call,   \* history: the last call on the chunk and its outcome
    chunk_before, \* history: chunk and tensor_meta as they were before that call
    chunk_log,    \* history: what was registered and how the data grew
    rle,          \* a run-length positional encoder: rows <<value, cumulative count>>
    rle_log,      \* history: the values registered, the last call and the rows before it
    storage,      \* the StorageProvider of a Dataset: autoflush, dirty keys, flushed keys
    ds,           \* a Dataset and the with-block it is used in
    transform_tensor, \* a TransformTensor: items, numpy_only, cum_sizes, idx
    transform_log     \* history: the samples added, the last call and its outcome

encoder_vars == <<encoded_ids, ledger, before, call>>
naming_vars == <<naming>>
chunk_vars == <<chunk, tensor_meta, chunk_call, chunk_before, chunk_log>>

rle_vars == <<rle, rle_log>>
dataset_vars == <<storage, ds>>
transform_vars == <<transform_tensor, transform_log>>
other_vars == <<rle_vars, dataset_vars, transform_vars>>

vars == <<encoded_ids, ledger, before, call, naming,
          chunk, tensor_meta, chunk_call, chunk_before, chunk_log,
          rle, rle_log, storage, ds, transform_tensor, transform_log>>

---------------------------------------------------------------------------
(* Bounds of the model.                                                    *)

\* TLC's integers have 32 bits, so the 64-bit word of np.uint64 is modelled
\* as a word of WordBits bits.  Every count and index of the model stays
\* below MaxTotal + MaxN, far from the word size, as it does in the program.
WordBits == 20
\* generate_chunk_id() is called at most MaxChunks times.
MaxChunks == 2
\* The successful registrations add up to at most MaxTotal samples.
MaxTotal == 3
\* register_samples_to_last_chunk_id(n) is called with n in -1..MaxN.
MaxN == 2
\* uuid4() draws the chunk id from 1..NumIds.
NumIds == 2

\* Lookups are called with every index in -MaxIndex..MaxIndex.
MaxIndex == MaxTotal + 1

Ids == 1..NumIds
Counts == (0 - 1)..MaxN
Indices == (0 - MaxIndex)..MaxIndex

---------------------------------------------------------------------------
(* Numbers.                                                                *)

CHUNK_ID_INDEX == 0
LAST_INDEX_INDEX == 1

\* The word size of np.uint64 (2^64 in the program).
Two64 == 2 ^ WordBits

\* np.uint64(x), and the wraparound of uint64 addition.
U64(x) == x % Two64

\* The float64 nearest to the integer x.  float64 has 53 significant bits:
\* every integer the model reaches is exact except those next to the word
\* size, where the spacing of float64 is 2048 below it and 4096 above it.
F64(x) ==
    IF x >= Two64 - 1024 /\ x <= Two64 + 2048 THEN Two64
    ELSE IF x <= 1024 - Two64 /\ x >= 0 - Two64 - 2048 THEN 0 - Two64
    ELSE x

\* self._encoded_ids = None.  The array never has zero rows.
None == <<>>

\* The value a call without a result (or a call that raised) returns.
NoReturn == <<>>

---------------------------------------------------------------------------
(* Properties.                                                             *)

NumChunks(ids) == IF ids = None THEN 0 ELSE Len(ids)

\* NumSamples with the addition made in uint64, where all-ones + 1 wraps to 0.
NumSamplesWrapping(ids) ==
    IF ids = None THEN 0
    ELSE U64(ids[Len(ids)][LAST_INDEX_INDEX + 1] + 1)

\* int(self._encoded_ids[-1, LAST_INDEX_INDEX] + 1): uint64 scalar + int is
\* a float64 addition.
NumSamples(ids) ==
    IF ids = None THEN 0
    ELSE F64(F64(ids[Len(ids)][LAST_INDEX_INDEX + 1]) + 1)

num_chunks == NumChunks(encoded_ids)
num_samples == NumSamples(encoded_ids)

---------------------------------------------------------------------------
(* generate_chunk_id                                                       *)

\* The array after generate_chunk_id() drew `id`.
GenerateChunkId(ids, id) ==
    IF NumSamples(ids) = 0
    THEN << <<U64(id), U64(0 - 1)>> >>
    ELSE LET last_index == NumSamples(ids) - 1
         IN  ids \o << <<U64(id), U64(last_index)>> >>

---------------------------------------------------------------------------
(* register_samples_to_last_chunk_id                                       *)

\* RegisterSamples without the check for an encoder that has no chunk id:
\* the call returns silently.
RegisterSamplesNoChunkCheck(ids, n) ==
    IF n < 0 THEN [exc |-> "ValueError", ids |-> ids]
    ELSE IF n = 0 /\ NumChunks(ids) < 2 THEN [exc |-> "ChunkIdEncoderError", ids |-> ids]
    ELSE IF ids = None THEN [exc |-> "none", ids |-> ids]
    ELSE LET current_entry == ids[Len(ids)]
             last == U64(current_entry[LAST_INDEX_INDEX + 1] + U64(n))
         IN  [exc |-> "none",
              ids |-> [ids EXCEPT ![Len(ids)][LAST_INDEX_INDEX + 1] = last]]

\* RegisterSamples with the continuation check off by one: num_chunks < 1.
RegisterSamplesZeroOffByOne(ids, n) ==
    IF n < 0 THEN [exc |-> "ValueError", ids |-> ids]
    ELSE IF NumSamples(ids) = 0 THEN [exc |-> "ChunkIdEncoderError", ids |-> ids]
    ELSE IF n = 0 /\ NumChunks(ids) < 1 THEN [exc |-> "ChunkIdEncoderError", ids |-> ids]
    ELSE LET current_entry == ids[Len(ids)]
             last == U64(current_entry[LAST_INDEX_INDEX + 1] + U64(n))
         IN  [exc |-> "none",
              ids |-> [ids EXCEPT ![Len(ids)][LAST_INDEX_INDEX + 1] = last]]

\* RegisterSamples with its first two checks in the other order.
RegisterSamplesChecksSwapped(ids, n) ==
    IF NumSamples(ids) = 0 THEN [exc |-> "ChunkIdEncoderError", ids |-> ids]
    ELSE IF n < 0 THEN [exc |-> "ValueError", ids |-> ids]
    ELSE IF n = 0 /\ NumChunks(ids) < 2 THEN [exc |-> "ChunkIdEncoderError", ids |-> ids]
    ELSE LET current_entry == ids[Len(ids)]
             last == U64(current_entry[LAST_INDEX_INDEX + 1] + U64(n))
         IN  [exc |-> "none",
              ids |-> [ids EXCEPT ![Len(ids)][LAST_INDEX_INDEX + 1] = last]]

\* The outcome of register_samples_to_last_chunk_id(n): the exception raised
\* ("none" when it returns) and the array afterwards.
RegisterSamples(ids, n) ==
    IF n < 0 THEN [exc |-> "ValueError", ids |-> ids]
    ELSE IF NumSamples(ids) = 0 THEN [exc |-> "ChunkIdEncoderError", ids |-> ids]
    ELSE IF n = 0 /\ NumChunks(ids) < 2 THEN [exc |-> "ChunkIdEncoderError", ids |-> ids]
    ELSE LET current_entry == ids[Len(ids)]
             last == U64(current_entry[LAST_INDEX_INDEX + 1] + U64(n))
         IN  [exc |-> "none",
              ids |-> [ids EXCEPT ![Len(ids)][LAST_INDEX_INDEX + 1] = last]]

---------------------------------------------------------------------------
(* __getitem__ and get_local_sample_index                                  *)

\* The last-index column, self._encoded_ids[:, LAST_INDEX_INDEX].
Column(ids) == [i \in 1..Len(ids) |-> ids[i][LAST_INDEX_INDEX + 1]]

\* numpy's binary search for side='left' (npy_binsearch): indices are 0-based.
RECURSIVE BinSearchLeft(_, _, _, _)
BinSearchLeft(arr, key, min_idx, max_idx) ==
    IF min_idx < max_idx
    THEN LET mid_idx == min_idx + ((max_idx - min_idx) \div 2)
         IN  IF arr[mid_idx + 1] < key
             THEN BinSearchLeft(arr, key, mid_idx + 1, max_idx)
             ELSE BinSearchLeft(arr, key, min_idx, mid_idx)
    ELSE min_idx

\* np.searchsorted(arr, key).  The comparison is made on the values as they
\* are: a key below 2^63 is compared in float64, where only the all-ones
\* word is rounded (up, staying the largest), and a larger key in uint64.
searchsorted(arr, key) == BinSearchLeft(arr, key, 0, Len(arr))

\* GetItem with a negative index resolved one place too low.
GetItemResolveOffByOne(ids, sample_index) ==
    IF NumSamples(ids) = 0 THEN [exc |-> "IndexError", ret |-> NoReturn]
    ELSE LET resolved == IF sample_index < 0
                         THEN (NumSamples(ids) - 1) + sample_index
                         ELSE sample_index
             idx == searchsorted(Column(ids), resolved)
         IN  IF idx >= Len(ids)
             THEN [exc |-> "IndexError", ret |-> NoReturn]
             ELSE [exc |-> "none", ret |-> <<ids[idx + 1][CHUNK_ID_INDEX + 1], idx>>]

\* self.__getitem__(sample_index, return_chunk_index=True): the exception
\* raised, or ret = <<id, chunk_index>>.
GetItem(ids, sample_index) ==
    IF NumSamples(ids) = 0 THEN [exc |-> "IndexError", ret |-> NoReturn]
    ELSE LET resolved == IF sample_index < 0
                         THEN NumSamples(ids) + sample_index
                         ELSE sample_index
             idx == searchsorted(Column(ids), resolved)
         IN  IF idx >= Len(ids)
             THEN [exc |-> "IndexError", ret |-> NoReturn]
             ELSE [exc |-> "none", ret |-> <<ids[idx + 1][CHUNK_ID_INDEX + 1], idx>>]

\* self.get_local_sample_index(global_sample_index): the exception raised, or
\* ret = <<local index>>.
GetLocalSampleIndex(ids, global_sample_index) ==
    LET found == GetItem(ids, global_sample_index)
    IN  IF found.exc # "none" THEN [exc |-> found.exc, ret |-> NoReturn]
        ELSE IF global_sample_index < 0
        THEN [exc |-> "NotImplementedError", ret |-> NoReturn]
        ELSE LET chunk_index == found.ret[2]
             IN  IF chunk_index = 0
                 THEN [exc |-> "none", ret |-> <<global_sample_index>>]
                 ELSE LET current_entry == ids[chunk_index]
                          last_num_samples ==
                              F64(F64(current_entry[LAST_INDEX_INDEX + 1]) + 1)
                      IN  [exc |-> "none",
                           ret |-> <<F64(global_sample_index - last_num_samples)>>]

---------------------------------------------------------------------------
(* The ledger: what the caller has done, chunk by chunk.                   *)

RECURSIVE SumSamples(_)
SumSamples(l) == IF l = <<>> THEN 0 ELSE l[1].samples + SumSamples(Tail(l))

\* The samples registered to the first k generated chunks.
Registered(k) == SumSamples(SubSeq(ledger, 1, k))

\* The samples registered so far.
Total == Registered(Len(ledger))

---------------------------------------------------------------------------
(* The calls.                                                              *)

\* ---------------------------------------------------------------------------
\* Storage names of chunk ids (name_from_id / id_from_name).  A Python str is a
\* sequence of one-character strings.

HexChars == <<"0", "1", "2", "3", "4", "5", "6", "7",
              "8", "9", "a", "b", "c", "d", "e", "f">>

\* The digits hex() prints for a non-negative integer: most significant first,
\* no leading zero, "0" for zero.
RECURSIVE HexDigits(_)
HexDigits(x) ==
    IF x < 16 THEN <<HexChars[x + 1]>>
    ELSE HexDigits(x \div 16) \o <<HexChars[(x % 16) + 1]>>

\* Python's hex() of a non-negative integer.
hex(x) == <<"0", "x">> \o HexDigits(x)

IsHexChar(c) == \E v \in 1..16 : HexChars[v] = c

DigitValue(c) == (CHOOSE v \in 1..16 : HexChars[v] = c) - 1

RECURSIVE DigitsValue(_)
DigitsValue(s) ==
    IF s = <<>> THEN 0
    ELSE 16 * DigitsValue(SubSeq(s, 1, Len(s) - 1)) + DigitValue(s[Len(s)])

\* Python's int(text, 16): one optional "0x" prefix, then at least one digit.
int16(text) ==
    LET body == IF Len(text) >= 2 /\ SubSeq(text, 1, 2) = <<"0", "x">>
                THEN SubSeq(text, 3, Len(text)) ELSE text
    IN  IF body # <<>> /\ \A i \in 1..Len(body) : IsHexChar(body[i])
        THEN [exc |-> "none", ret |-> DigitsValue(body)]
        ELSE [exc |-> "ValueError", ret |-> 0]

NameFromIdDropsDigit(id) == SubSeq(hex(id), 4, Len(hex(id)))

name_from_id(id) == SubSeq(hex(id), 3, Len(hex(id)))

id_from_name(name) == int16(<<"0", "x">> \o name)

\* The chunk ids the naming functions are exercised on: the smallest ids and the
\* ids that end the 64-bit word.
MaxNameId == 40

NameIds == (0..MaxNameId) \cup ((Two64 - 1 - MaxNameId)..(Two64 - 1))

\* ---------------------------------------------------------------------------
\* Chunks (BaseChunk).  An Optional value is None or a one-element sequence; a
\* shape is a sequence of dimensions, so the shape () is Some(<<>>).

Some(x) == <<x>>

\* The run-length positional encoders of the two chunk headers.  A row is
\* <<value, cumulative count>>.
EncLen(rows) == IF rows = <<>> THEN 0 ELSE rows[Len(rows)][2]

EncRegisterStartsAtZero(rows, value, count) ==
    IF count < 0 THEN [exc |-> "InvalidArgument", rows |-> rows]
    ELSE IF count = 0 THEN [exc |-> "none", rows |-> rows]
    ELSE IF rows # <<>> /\ rows[Len(rows)][1] = value
    THEN [exc |-> "none",
          rows |-> [rows EXCEPT ![Len(rows)] = <<value, @[2] + count>>]]
    ELSE [exc |-> "none", rows |-> Append(rows, <<value, count>>)]

EncRegister(rows, value, count) ==
    IF count < 0 THEN [exc |-> "InvalidArgument", rows |-> rows]
    ELSE IF count = 0 THEN [exc |-> "none", rows |-> rows]
    ELSE IF rows # <<>> /\ rows[Len(rows)][1] = value
    THEN [exc |-> "none",
          rows |-> [rows EXCEPT ![Len(rows)] = <<value, @[2] + count>>]]
    ELSE [exc |-> "none", rows |-> Append(rows, <<value, EncLen(rows) + count>>)]

\* A negative index counts from the end.
EncResolve(rows, i) == IF i < 0 THEN i + EncLen(rows) ELSE i

EncInRange(rows, i) == EncResolve(rows, i) >= 0 /\ EncResolve(rows, i) < EncLen(rows)

\* The first row whose cumulative count exceeds the index.
EncRowOf(rows, i) ==
    CHOOSE r \in 1..Len(rows) :
        /\ rows[r][2] > EncResolve(rows, i)
        /\ \A q \in 1..(r - 1) : rows[q][2] <= EncResolve(rows, i)

EncLookup(rows, i) ==
    IF EncInRange(rows, i)
    THEN [exc |-> "none", ret |-> Some(rows[EncRowOf(rows, i)][1])]
    ELSE [exc |-> "IndexError", ret |-> None]

\* Replaces the value at one index: a run of one is edited in place, a longer
\* run is split into the part before, the index and the part after.
EncUpdateWholeRun(rows, i, value) ==
    IF ~EncInRange(rows, i) THEN [exc |-> "IndexError", rows |-> rows]
    ELSE [exc |-> "none",
          rows |-> [rows EXCEPT ![EncRowOf(rows, i)] = <<value, @[2]>>]]

EncUpdate(rows, i, value) ==
    IF ~EncInRange(rows, i) THEN [exc |-> "IndexError", rows |-> rows]
    ELSE LET r == EncRowOf(rows, i)
             k == EncResolve(rows, i)
             start == IF r = 1 THEN 0 ELSE rows[r - 1][2]
             old == rows[r]
             left == IF k > start THEN <<(<<old[1], k>>)>> ELSE <<>>
             right == IF k + 1 < old[2] THEN <<old>> ELSE <<>>
         IN  [exc |-> "none",
              rows |-> SubSeq(rows, 1, r - 1) \o left \o <<(<<value, k + 1>>)>>
                       \o right \o SubSeq(rows, r + 1, Len(rows))]

\* TensorMeta: the tensor's sample count and its running shape interval.
Min(a, b) == IF a < b THEN a ELSE b

Max(a, b) == IF a > b THEN a ELSE b

TensorMeta(htype) ==
    [htype |-> htype, length |-> 0, min_shape |-> <<>>, max_shape |-> <<>>]

update_shape_interval(meta, shape) ==
    IF meta.min_shape = <<>> /\ meta.max_shape = <<>>
    THEN [exc |-> "none", meta |-> [meta EXCEPT !.min_shape = shape, !.max_shape = shape]]
    ELSE IF Len(shape) # Len(meta.min_shape)
    THEN [exc |-> "TensorInvalidSampleShapeError", meta |-> meta]
    ELSE [exc |-> "none",
          meta |-> [meta EXCEPT
                      !.min_shape = [d \in 1..Len(shape) |-> Min(@[d], shape[d])],
                      !.max_shape = [d \in 1..Len(shape) |-> Max(@[d], shape[d])]]]

\* hub.compression.IMAGE_COMPRESSIONS, as far as the model uses it.
IMAGE_COMPRESSIONS == {"png", "jpeg"}

\* hub.__version__ as a byte string, and the version of an older release.
HubVersion == <<50, 46, 53>>

OldVersion == <<50, 46, 52>>

\* The backing array of a header: one row of integers per run.  A shape row is
\* the dimensions followed by the cumulative count, a byte-position row the
\* byte length followed by the cumulative count.
ShapeArray(rows) == [r \in 1..Len(rows) |-> rows[r][1] \o <<rows[r][2]>>]

ShapeRows(array) ==
    [r \in 1..Len(array) |->
        <<SubSeq(array[r], 1, Len(array[r]) - 1), array[r][Len(array[r])]>>]

BytePositionsArray(rows) == [r \in 1..Len(rows) |-> <<rows[r][1], rows[r][2]>>]

BytePositionsRows(array) == [r \in 1..Len(array) |-> <<array[r][1], array[r][2]>>]

\* ShapeEncoder(encoded_shapes) and BytePositionsEncoder(encoded_byte_positions):
\* no array gives an empty encoder.
ShapeEncoder(encoded_shapes) ==
    IF encoded_shapes = None THEN <<>> ELSE ShapeRows(encoded_shapes[1])

BytePositionsEncoder(encoded_byte_positions) ==
    IF encoded_byte_positions = None THEN <<>>
    ELSE BytePositionsRows(encoded_byte_positions[1])

\* BaseChunk(min_chunk_size, max_chunk_size, tensor_meta, compression,
\* encoded_shapes, encoded_byte_positions, data): data is an Optional
\* memoryview, and "data or bytearray()" keeps it only when it is not empty.
BaseChunkFrom(min_chunk_size, max_chunk_size, meta, compression, encoded_shapes, encoded_byte_positions, data) ==
    [min_chunk_size |-> min_chunk_size,
     max_chunk_size |-> max_chunk_size,
     num_dims |-> IF meta.max_shape # <<>> THEN Some(Len(meta.max_shape)) ELSE None,
     is_text_like |-> meta.htype \in {"json", "list", "text"},
     compression |-> compression,
     data_bytes |-> IF data # None /\ Len(data[1]) > 0 THEN data[1] ELSE <<>>,
     data_is_view |-> data # None /\ Len(data[1]) > 0,
     version |-> HubVersion,
     shapes_encoder |-> ShapeEncoder(encoded_shapes),
     byte_positions_encoder |-> BytePositionsEncoder(encoded_byte_positions),
     is_convert_candidate |->
         \/ meta.htype = "image"
         \/ compression # None /\ compression[1] \in IMAGE_COMPRESSIONS]

\* BaseChunk(min_chunk_size, max_chunk_size, tensor_meta, compression).
BaseChunk(min_chunk_size, max_chunk_size, meta, compression) ==
    BaseChunkFrom(min_chunk_size, max_chunk_size, meta, compression, None, None, None)

\* The chunk's serialized form (serialize_chunk / deserialize_chunk /
\* infer_chunk_num_bytes): one byte with the length of the version tag, the
\* tag, then each header array as its byte length followed by the number of
\* columns and the entries, every integer in ItemBytes little-endian bytes,
\* then the data bytes.
ItemBytes == 4

ToLE(x) == [k \in 1..ItemBytes |-> (x \div (256 ^ (k - 1))) % 256]

RECURSIVE FromLE(_)
FromLE(bytes) == IF bytes = <<>> THEN 0 ELSE bytes[1] + 256 * FromLE(Tail(bytes))

RECURSIVE Flatten(_)
Flatten(array) == IF array = <<>> THEN <<>> ELSE array[1] \o Flatten(Tail(array))

RECURSIVE EncodeInts(_)
EncodeInts(ints) == IF ints = <<>> THEN <<>> ELSE ToLE(ints[1]) \o EncodeInts(Tail(ints))

DecodeInts(bytes) ==
    [k \in 1..(Len(bytes) \div ItemBytes) |->
        FromLE(SubSeq(bytes, (k - 1) * ItemBytes + 1, k * ItemBytes))]

Columns(array) == IF array = <<>> THEN 0 ELSE Len(array[1])

Section(array) == EncodeInts(<<Columns(array)>> \o Flatten(array))

ArrayOfSection(bytes) ==
    LET ints == DecodeInts(bytes)
        cols == ints[1]
    IN  IF cols = 0 THEN <<>>
        ELSE [r \in 1..((Len(ints) - 1) \div cols) |->
                 SubSeq(ints, 2 + (r - 1) * cols, 1 + r * cols)]

serialize_chunk(version, shape_info, byte_positions, data) ==
    <<Len(version)>> \o version
        \o ToLE(Len(Section(shape_info))) \o Section(shape_info)
        \o ToLE(Len(Section(byte_positions))) \o Section(byte_positions)
        \o data

deserialize_chunk(buffer) ==
    LET len_version == buffer[1]
        shapes_at == 1 + len_version
        len_shapes == FromLE(SubSeq(buffer, shapes_at + 1, shapes_at + ItemBytes))
        positions_at == shapes_at + ItemBytes + len_shapes
        len_positions == FromLE(SubSeq(buffer, positions_at + 1, positions_at + ItemBytes))
        data_at == positions_at + ItemBytes + len_positions
    IN  [version |-> SubSeq(buffer, 2, shapes_at),
         shapes |-> ArrayOfSection(SubSeq(buffer, shapes_at + ItemBytes + 1, positions_at)),
         byte_positions |->
             ArrayOfSection(SubSeq(buffer, positions_at + ItemBytes + 1, data_at)),
         data |-> SubSeq(buffer, data_at + 1, Len(buffer))]

infer_chunk_num_bytes(version, shape_info, byte_positions, len_data) ==
    1 + Len(version)
        + ItemBytes * (2 + Len(shape_info) * Columns(shape_info))
        + ItemBytes * (2 + Len(byte_positions) * Columns(byte_positions))
        + len_data

\* BaseChunk.nbytes and BaseChunk.tobytes().
NbytesWithoutData(c) ==
    infer_chunk_num_bytes(c.version, ShapeArray(c.shapes_encoder),
                          BytePositionsArray(c.byte_positions_encoder), 0)

nbytes(c) ==
    infer_chunk_num_bytes(c.version, ShapeArray(c.shapes_encoder),
                          BytePositionsArray(c.byte_positions_encoder), Len(c.data_bytes))

tobytes(c) ==
    serialize_chunk(c.version, ShapeArray(c.shapes_encoder),
                    BytePositionsArray(c.byte_positions_encoder), c.data_bytes)

\* chunk_args of frombuffer and copy: the four leading constructor arguments.
ChunkArgs(c, meta) ==
    [min_chunk_size |-> c.min_chunk_size, max_chunk_size |-> c.max_chunk_size,
     tensor_meta |-> meta, compression |-> c.compression]

\* frombuffer(buffer, chunk_args).
FromBufferWithoutData(buffer, chunk_args) ==
    IF buffer = <<>>
    THEN BaseChunk(chunk_args.min_chunk_size, chunk_args.max_chunk_size,
                   chunk_args.tensor_meta, chunk_args.compression)
    ELSE LET d == deserialize_chunk(buffer)
             c == BaseChunkFrom(chunk_args.min_chunk_size, chunk_args.max_chunk_size,
                                chunk_args.tensor_meta, chunk_args.compression,
                                Some(d.shapes), Some(d.byte_positions), None)
         IN  [c EXCEPT !.version = d.version]

frombuffer(buffer, chunk_args) ==
    IF buffer = <<>>
    THEN BaseChunk(chunk_args.min_chunk_size, chunk_args.max_chunk_size,
                   chunk_args.tensor_meta, chunk_args.compression)
    ELSE LET d == deserialize_chunk(buffer)
             c == BaseChunkFrom(chunk_args.min_chunk_size, chunk_args.max_chunk_size,
                                chunk_args.tensor_meta, chunk_args.compression,
                                Some(d.shapes), Some(d.byte_positions), Some(d.data))
         IN  [c EXCEPT !.version = d.version]

\* copy(chunk_args).
copy(c, chunk_args) == frombuffer(tobytes(c), chunk_args)

\* _make_data_bytearray(): a memoryview is copied into a bytearray.
MakeDataBytearrayNever(c) == c

make_data_bytearray(c) ==
    IF c.data_is_view THEN [c EXCEPT !.data_is_view = FALSE] ELSE c

\* prepare_for_write(): ffw_chunk, which brings a chunk of an older version
\* forward or leaves the version as it is, then _make_data_bytearray.
prepare_for_write(c, version) == make_data_bytearray([c EXCEPT !.version = version])

FfwVersions(c) == {c.version, HubVersion}

num_data_bytes(c) == Len(c.data_bytes)

CanFitSampleAtMost(c, sample_nbytes, buffer_nbytes) ==
    num_data_bytes(c) + buffer_nbytes + sample_nbytes <= c.min_chunk_size

can_fit_sample(c, sample_nbytes, buffer_nbytes) ==
    num_data_bytes(c) + buffer_nbytes + sample_nbytes < c.min_chunk_size

RegisterSampleToHeadersZeroForNone(c, incoming_num_bytes, sample_shape) ==
    [c EXCEPT
       !.shapes_encoder = EncRegister(@, sample_shape, 1).rows,
       !.byte_positions_encoder =
           EncRegister(@, IF incoming_num_bytes # None THEN incoming_num_bytes[1] ELSE 0,
                       1).rows]

\* register_sample_to_headers(incoming_num_bytes, sample_shape); the byte
\* length is an Optional.
register_sample_to_headers(c, incoming_num_bytes, sample_shape) ==
    [c EXCEPT
       !.shapes_encoder = EncRegister(@, sample_shape, 1).rows,
       !.byte_positions_encoder =
           IF incoming_num_bytes # None
           THEN EncRegister(@, incoming_num_bytes[1], 1).rows ELSE @]

RegisterInMetaAndHeadersLengthFromHeader(c, meta, sample_nbytes, shape) ==
    LET counted == [meta EXCEPT !.length = EncLen(c.shapes_encoder) + 1]
        out == update_shape_interval(counted, shape)
    IN  [exc |-> out.exc,
         chunk |-> register_sample_to_headers(c, sample_nbytes, shape),
         meta |-> out.meta]

\* register_in_meta_and_headers(sample_nbytes, shape): the headers, then the
\* length, then the shape interval, which may raise after the first two.
register_in_meta_and_headers(c, meta, sample_nbytes, shape) ==
    LET counted == [meta EXCEPT !.length = @ + 1]
        out == update_shape_interval(counted, shape)
    IN  [exc |-> out.exc,
         chunk |-> register_sample_to_headers(c, sample_nbytes, shape),
         meta |-> out.meta]

\* update_in_meta_and_headers(local_sample_index, sample_nbytes, shape): a
\* statement that raises ends the call and keeps what was done before it.
update_in_meta_and_headers(c, meta, local_sample_index, sample_nbytes, shape) ==
    LET bp == IF sample_nbytes # None
              THEN EncUpdate(c.byte_positions_encoder, local_sample_index, sample_nbytes[1])
              ELSE [exc |-> "none", rows |-> c.byte_positions_encoder]
        sh == EncUpdate(c.shapes_encoder, local_sample_index, shape)
        out == update_shape_interval(meta, shape)
        c1 == [c EXCEPT !.byte_positions_encoder = bp.rows]
        c2 == [c1 EXCEPT !.shapes_encoder = sh.rows]
    IN  IF bp.exc # "none" THEN [exc |-> bp.exc, chunk |-> c, meta |-> meta]
        ELSE IF sh.exc # "none" THEN [exc |-> sh.exc, chunk |-> c1, meta |-> meta]
        ELSE [exc |-> out.exc, chunk |-> c2, meta |-> out.meta]

CheckShapeForUpdateAnyShape(c, local_sample_index, shape) ==
    EncLookup(c.shapes_encoder, local_sample_index).exc

\* check_shape_for_update(local_sample_index, shape).
check_shape_for_update(c, local_sample_index, shape) ==
    LET stored == EncLookup(c.shapes_encoder, local_sample_index)
    IN  IF stored.exc # "none" THEN stored.exc
        ELSE IF Len(stored.ret[1]) # Len(shape) THEN "TensorInvalidSampleShapeError"
        ELSE "none"

\* normalize_shape(shape); the shape is an Optional.
NormalizeShapeKeepsScalar(shape) == shape

normalize_shape(shape) ==
    IF shape # None /\ Len(shape[1]) = 0 THEN Some(<<1>>) ELSE shape

\* convert_to_rgb(shape) with hub.constants.CONVERT_GRAYSCALE as it is when the
\* call is made: the returned shape and num_dims after the call.
ConvertToRgbAnyImage(c, shape, CONVERT_GRAYSCALE) ==
    IF c.is_convert_candidate /\ CONVERT_GRAYSCALE
    THEN LET num_dims == IF c.num_dims = None THEN Some(Len(shape)) ELSE c.num_dims
         IN  [shape |-> IF Len(shape) = 2 THEN Append(shape, 1) ELSE shape,
              num_dims |-> num_dims]
    ELSE [shape |-> shape, num_dims |-> c.num_dims]

convert_to_rgb(c, shape, CONVERT_GRAYSCALE) ==
    IF c.is_convert_candidate /\ CONVERT_GRAYSCALE
    THEN LET num_dims == IF c.num_dims = None THEN Some(Len(shape)) ELSE c.num_dims
         IN  [shape |-> IF Len(shape) = 2 /\ num_dims = Some(3)
                        THEN Append(shape, 1) ELSE shape,
              num_dims |-> num_dims]
    ELSE [shape |-> shape, num_dims |-> c.num_dims]

\* A sample: its Python type, the shape and raw size of its array (Sample,
\* ndarray and base types, SampleTiles), its length (bytes, str) and the length
\* the codec compresses it to.
RECURSIVE Prod(_)
Prod(shape) == IF shape = <<>> THEN 1 ELSE shape[1] * Prod(Tail(shape))

SampleValue(kind, shape, array_nbytes, compressed) ==
    [kind |-> kind, shape |-> shape, nbytes |-> array_nbytes, compressed |-> compressed]

\* The size tests of serialize_sample_object and serialize_numpy_and_base_types.
ExceedsMaxChunkSize(c, size) == size > c.max_chunk_size

exceeds_min_chunk_size(c, size) == size > c.min_chunk_size

\* What the two serializers return in place of the sample.
Tiled(sample) == [kind |-> "SampleTiles", nbytes |-> sample.nbytes]

Inline(size) == [kind |-> "bytes", nbytes |-> size]

\* text_to_bytes followed by the optional compress_bytes: a str is encoded with
\* shape (1,), anything else is refused.
serialize_text(c, sample, sample_compression) ==
    IF sample.kind = "str"
    THEN [exc |-> "none",
          out |-> Inline(IF sample_compression # None THEN sample.compressed
                         ELSE sample.nbytes),
          shape |-> Some(<<1>>), num_dims |-> c.num_dims]
    ELSE [exc |-> "TypeError", out |-> Inline(0), shape |-> None, num_dims |-> c.num_dims]

serialize_sample_object(c, sample, sample_compression, CONVERT_GRAYSCALE) ==
    LET rgb == convert_to_rgb(c, sample.shape, CONVERT_GRAYSCALE)
        size == IF sample_compression # None THEN sample.compressed ELSE sample.nbytes
    IN  [exc |-> "none",
         out |-> IF exceeds_min_chunk_size(c, size) THEN Tiled(sample) ELSE Inline(size),
         shape |-> Some(rgb.shape), num_dims |-> rgb.num_dims]

serialize_numpy_and_base_types(c, sample, sample_compression) ==
    LET size == IF sample_compression = None THEN sample.nbytes ELSE sample.compressed
    IN  [exc |-> "none",
         out |-> IF exceeds_min_chunk_size(c, size) THEN Tiled(sample) ELSE Inline(size),
         shape |-> Some(sample.shape), num_dims |-> c.num_dims]

SerializeDispatchUnknownAsBytes(c, sample, sample_compression, CONVERT_GRAYSCALE) ==
    IF c.is_text_like THEN serialize_text(c, sample, sample_compression)
    ELSE IF sample.kind = "Sample"
    THEN serialize_sample_object(c, sample, sample_compression, CONVERT_GRAYSCALE)
    ELSE IF sample.kind = "ndarray"
    THEN serialize_numpy_and_base_types(c, sample, sample_compression)
    ELSE IF sample.kind = "SampleTiles"
    THEN [exc |-> "none", out |-> Tiled(sample), shape |-> Some(sample.shape),
          num_dims |-> c.num_dims]
    ELSE [exc |-> "none", out |-> Inline(sample.nbytes), shape |-> None,
          num_dims |-> c.num_dims]

\* The dispatch of serialize_sample before the shape is normalized.
SerializeDispatch(c, sample, sample_compression, CONVERT_GRAYSCALE) ==
    IF c.is_text_like THEN serialize_text(c, sample, sample_compression)
    ELSE IF sample.kind = "Sample"
    THEN serialize_sample_object(c, sample, sample_compression, CONVERT_GRAYSCALE)
    ELSE IF sample.kind = "bytes"
    THEN [exc |-> "none", out |-> Inline(sample.nbytes), shape |-> None,
          num_dims |-> c.num_dims]
    ELSE IF sample.kind = "ndarray"
    THEN serialize_numpy_and_base_types(c, sample, sample_compression)
    ELSE IF sample.kind = "SampleTiles"
    THEN [exc |-> "none", out |-> Tiled(sample), shape |-> Some(sample.shape),
          num_dims |-> c.num_dims]
    ELSE [exc |-> "TypeError", out |-> Inline(0), shape |-> None, num_dims |-> c.num_dims]

serialize_sample(c, sample, sample_compression, CONVERT_GRAYSCALE) ==
    LET r == SerializeDispatch(c, sample, sample_compression, CONVERT_GRAYSCALE)
    IN  IF r.exc # "none" THEN r ELSE [r EXCEPT !.shape = normalize_shape(@)]

\* Python's seq[a:b] for 0 <= a: the bounds are clamped to the length.
Slice(seq, a, b) == SubSeq(seq, Min(a, Len(seq)) + 1, Min(b, Len(seq)))

\* byte_positions_encoder[local_sample_index]: the <<start, end>> byte window of
\* the sample, every earlier sample taking the length its run records.
RECURSIVE BytesBefore(_, _)
BytesBefore(rows, r) ==
    IF r = 0 THEN 0
    ELSE BytesBefore(rows, r - 1)
         + rows[r][1] * (rows[r][2] - (IF r = 1 THEN 0 ELSE rows[r - 1][2]))

BytePositions(rows, i) ==
    IF ~EncInRange(rows, i) THEN [exc |-> "IndexError", ret |-> <<0, 0>>]
    ELSE LET r == EncRowOf(rows, i)
             first == IF r = 1 THEN 0 ELSE rows[r - 1][2]
             start == BytesBefore(rows, r - 1) + rows[r][1] * (EncResolve(rows, i) - first)
         IN  [exc |-> "none", ret |-> <<start, start + rows[r][1]>>]

CreateBufferKeepsOldSample(c, local_sample_index, old_data, new_sample_bytes) ==
    LET pos == BytePositions(c.byte_positions_encoder, local_sample_index)
        left_data == Slice(old_data, 0, pos.ret[1])
        right_data == Slice(old_data, pos.ret[1], Len(old_data))
    IN  [exc |-> pos.exc,
         ret |-> IF pos.exc = "none" THEN left_data \o new_sample_bytes \o right_data
                 ELSE old_data]

\* create_buffer_with_updated_data(local_sample_index, old_data, new_sample_bytes).
create_buffer_with_updated_data(c, local_sample_index, old_data, new_sample_bytes) ==
    LET pos == BytePositions(c.byte_positions_encoder, local_sample_index)
        left_data == Slice(old_data, 0, pos.ret[1])
        right_data == Slice(old_data, pos.ret[2], Len(old_data))
    IN  [exc |-> pos.exc,
         ret |-> IF pos.exc = "none" THEN left_data \o new_sample_bytes \o right_data
                 ELSE old_data]

\* No call was made on the chunk yet.
NoChunkCall == [op |-> "__init__", exc |-> "none"]

\* dims is the number of dimensions of the arrays the writer appends,
\* CONVERT_GRAYSCALE the setting of hub.constants the chunk reads.
\* source is the buffer the data of the chunk is a view of, as it is now, and
\* source_given the same buffer as it was when the chunk was read from it; both
\* are empty once the chunk has written to data of its own.
ChunkLogInit(meta) == [length0 |-> meta.length, registrations |-> 0, without_nbytes |-> 0,
                       only_appends |-> TRUE, dims |-> 1, CONVERT_GRAYSCALE |-> TRUE,
                       source |-> <<>>, source_given |-> <<>>]

\* A write to the data of chunk c: while the data is a view of the source
\* buffer, the bytes of the buffer are the ones written; a chunk that writes to
\* a bytearray of its own refers to no buffer any more.
WriteThrough(log, c, new_data) ==
    IF c.data_is_view
    THEN [log EXCEPT !.source = SubSeq(@, 1, Len(@) - Len(c.data_bytes)) \o new_data]
    ELSE [log EXCEPT !.source = <<>>, !.source_given = <<>>]

\* A chunk nobody uses.
ChunkIdle ==
    /\ tensor_meta = TensorMeta("generic")
    /\ chunk = BaseChunk(1, 1, TensorMeta("generic"), None)
    /\ chunk_call = NoChunkCall
    /\ chunk_before = [chunk |-> BaseChunk(1, 1, TensorMeta("generic"), None),
                       tensor_meta |-> TensorMeta("generic")]
    /\ chunk_log = ChunkLogInit(TensorMeta("generic"))

\* ---------------------------------------------------------------------------
\* Dataset (hub/core/dataset.py) on its StorageProvider.  The provider keeps
\* the keys written since the last flush (dirty) and the keys that reached the
\* underlying storage (stored).

DatasetMetaKey == "dataset_meta.json"

\* storage.flush(): the dirty keys are written out.
flush(st) == [st EXCEPT !.stored = @ \cup st.dirty, !.dirty = {}]

\* storage.maybe_flush(): flushes when autoflush is set.
maybe_flush(st) == IF st.autoflush THEN flush(st) ELSE st

\* storage[key] = value.
SetItem(st, keys) == [st EXCEPT !.dirty = @ \cup keys]

\* dataset_exists(storage).
dataset_exists(st) == DatasetMetaKey \in st.stored \cup st.dirty

\* Dataset._load_meta(): a dataset that is not in the storage yet is created
\* and flushed.
load_meta(st) ==
    IF dataset_exists(st) THEN st ELSE flush(SetItem(st, {DatasetMetaKey}))

\* Dataset._set_derived_attributes(), called by __init__.
set_derived_attributes(st) == load_meta([st EXCEPT !.autoflush = TRUE])

\* An empty storage provider, as it is constructed: autoflush is off.
EmptyStorage == [autoflush |-> FALSE, dirty |-> {}, stored |-> {}]

\* Dataset(storage): the dataset's fields and the storage after construction.
NoTensors == [name \in {} |-> 0]

NoDatasetCall == [op |-> "idle", exc |-> "none"]

\* num_samples / __len__ with the trivial index: the length of the smallest
\* tensor, 0 without tensors.
dataset_num_samples(tensors) ==
    IF DOMAIN tensors = {} THEN 0
    ELSE CHOOSE n \in {tensors[t] : t \in DOMAIN tensors} :
             \A t \in DOMAIN tensors : n <= tensors[t]

DatasetIdle ==
    /\ storage = set_derived_attributes(EmptyStorage)
    /\ ds = [tensors |-> NoTensors, in_with |-> FALSE, call |-> NoDatasetCall]

\* ---------------------------------------------------------------------------
\* TransformTensor (deeplake/core/transform/transform_tensor.py).  items is
\* the list of ndarray batches while numpy_only holds and the list of samples
\* afterwards; a batch is the sequence of its samples.

\* self.idx: slice(None, None, None) or an int.
WholeSlice == [kind |-> "slice", value |-> 0]

IntIndex(i) == [kind |-> "int", value |-> i]

\* The dataset of a TransformTensor: whether dataset.all_chunk_engines is set,
\* which makes the tensor report the data added to dataset.item_added.
TransformDataset(all_chunk_engines) == [all_chunk_engines |-> all_chunk_engines]

TransformTensor(dataset, is_group) ==
    [items |-> <<>>, dataset |-> dataset, is_group |-> is_group, idx |-> WholeSlice,
     numpy_only |-> TRUE, cum_sizes |-> <<>>]

\* __len__
len(tt) ==
    IF tt.numpy_only
    THEN IF tt.cum_sizes = <<>> THEN 0 ELSE tt.cum_sizes[Len(tt.cum_sizes)]
    ELSE Len(tt.items)

\* bisect.bisect_right(a, x) on a sorted list: the number of elements <= x.
bisect_right(a, x) == Cardinality({k \in 1..Len(a) : a[k] <= x})

\* list[k] and ndarray[k] for an int k: a negative k counts from the end.
PyIndex(list, k) ==
    IF k >= 0 /\ k < Len(list) THEN [exc |-> "none", ret |-> Some(list[k + 1])]
    ELSE IF k < 0 /\ -k <= Len(list)
    THEN [exc |-> "none", ret |-> Some(list[Len(list) + k + 1])]
    ELSE [exc |-> "IndexError", ret |-> None]

\* numpy_compressed()
numpy_compressed(tt) ==
    IF tt.idx.kind = "int"
    THEN IF tt.numpy_only
         THEN LET idx == tt.idx.value
                  i == bisect_right(tt.cum_sizes, idx)
                  j == IF i = 0 THEN idx ELSE idx - tt.cum_sizes[i]
                  batch == PyIndex(tt.items, i)
              IN  IF batch.exc # "none" THEN batch ELSE PyIndex(batch.ret[1], j)
         ELSE PyIndex(tt.items, tt.idx.value)
    ELSE [exc |-> "none", ret |-> Some(tt.items)]

\* non_numpy_only(): the batches are chained into one list of samples.
NonNumpyOnlyKeepsBatches(tt) ==
    IF tt.numpy_only
    THEN [tt EXCEPT !.cum_sizes = <<>>, !.numpy_only = FALSE]
    ELSE tt

non_numpy_only(tt) ==
    IF tt.numpy_only
    THEN [tt EXCEPT !.items = Flatten(tt.items), !.cum_sizes = <<>>, !.numpy_only = FALSE]
    ELSE tt

\* The number of dataset.item_added calls one addition makes.
ItemAdded(tt) == IF tt.dataset.all_chunk_engines THEN 1 ELSE 0

\* append(item): the tensor afterwards, the exception raised, the number of
\* samples added and the number of dataset.item_added calls.
append(tt, item) ==
    IF tt.is_group
    THEN [exc |-> "TensorDoesNotExistError", tt |-> tt, added |-> 0, item_added |-> 0]
    ELSE [exc |-> "none",
          tt |-> [non_numpy_only(tt) EXCEPT !.items = Append(@, item)],
          added |-> 1, item_added |-> ItemAdded(tt)]

\* for item in items: self.append(item)
RECURSIVE AppendEach(_, _)
AppendEach(tt, items) ==
    IF items = <<>> THEN [exc |-> "none", tt |-> tt, added |-> 0, item_added |-> 0]
    ELSE LET first == append(tt, Head(items))
         IN  IF first.exc # "none" THEN first
             ELSE LET rest == AppendEach(first.tt, Tail(items))
                  IN  [rest EXCEPT !.added = @ + first.added,
                                   !.item_added = @ + first.item_added]

\* extend(items); is_ndarray tells whether items is a numpy array.
ExtendKeepsBatchLength(tt, items, is_ndarray) ==
    IF tt.numpy_only /\ is_ndarray
    THEN [exc |-> "none",
          tt |-> [tt EXCEPT !.items = Append(@, items),
                            !.cum_sizes = Append(@, Len(items))],
          added |-> Len(items), item_added |-> ItemAdded(tt)]
    ELSE AppendEach(non_numpy_only(tt), items)

extend(tt, items, is_ndarray) ==
    IF tt.numpy_only /\ is_ndarray
    THEN [exc |-> "none",
          tt |-> [tt EXCEPT !.items = Append(@, items),
                            !.cum_sizes = Append(@, len(tt) + Len(items))],
          added |-> Len(items), item_added |-> ItemAdded(tt)]
    ELSE AppendEach(non_numpy_only(tt), items)

NoTransformCall == [op |-> "idle", exc |-> "none"]

TransformLogInit(tt) == [added |-> <<>>, call |-> NoTransformCall, before |-> tt]

TransformIdle ==
    /\ transform_tensor = TransformTensor(TransformDataset(FALSE), FALSE)
    /\ transform_log = TransformLogInit(TransformTensor(TransformDataset(FALSE), FALSE))

\* A run-length encoder after construction.
NoRleCall == [op |-> "idle", exc |-> "none"]

RleIdle ==
    /\ rle = <<>>
    /\ rle_log = [values |-> <<>>, call |-> NoRleCall, before |-> <<>>]

OtherIdle == RleIdle /\ DatasetIdle /\ TransformIdle

\* ChunkIdEncoder(): the encoder after construction.
EncoderInit ==
    /\ encoded_ids = None
    /\ ledger = <<>>
    /\ before = None
    /\ call = [op |-> "__init__", arg |-> 0, exc |-> "none", ret |-> NoReturn]

\* No chunk id is being named.
NamingIdle == naming = [op |-> "idle", id |-> 0, name |-> <<>>, parsed |-> NoReturn]

Init ==
    /\ EncoderInit
    /\ OtherIdle
    /\ NamingIdle
    /\ ChunkIdle

generate_chunk_id ==
    /\ Len(ledger) < MaxChunks
    /\ \E id \in Ids :
        /\ encoded_ids' = GenerateChunkId(encoded_ids, id)
        /\ call' = [op |-> "generate_chunk_id", arg |-> 0, exc |-> "none",
                    ret |-> <<U64(id)>>]
    /\ ledger' = Append(ledger, [samples |-> 0, registered |-> FALSE])
    /\ before' = encoded_ids
    /\ UNCHANGED <<naming_vars, chunk_vars, other_vars>>

register_samples_to_last_chunk_id ==
    \E n \in Counts :
        LET out == RegisterSamples(encoded_ids, n)
        IN  /\ (out.exc = "none") => (Total + n <= MaxTotal)
            /\ encoded_ids' = out.ids
            /\ call' = [op |-> "register_samples_to_last_chunk_id", arg |-> n,
                        exc |-> out.exc, ret |-> NoReturn]
            /\ ledger' = IF out.exc = "none" /\ ledger # <<>>
                         THEN [ledger EXCEPT ![Len(ledger)] =
                                  [samples |-> @.samples + n, registered |-> TRUE]]
                         ELSE ledger
            /\ before' = encoded_ids
            /\ UNCHANGED <<naming_vars, chunk_vars, other_vars>>

getitem ==
    \E sample_index \in Indices, return_chunk_index \in BOOLEAN :
        LET out == GetItem(encoded_ids, sample_index)
        IN  /\ call' = [op |-> "__getitem__", arg |-> sample_index, exc |-> out.exc,
                        ret |-> IF out.exc = "none" /\ ~return_chunk_index
                                THEN <<out.ret[1]>> ELSE out.ret]
            /\ before' = encoded_ids
            /\ UNCHANGED <<encoded_ids, ledger>>
            /\ UNCHANGED <<naming_vars, chunk_vars, other_vars>>

get_local_sample_index ==
    \E global_sample_index \in Indices :
        LET out == GetLocalSampleIndex(encoded_ids, global_sample_index)
        IN  /\ call' = [op |-> "get_local_sample_index", arg |-> global_sample_index,
                        exc |-> out.exc, ret |-> out.ret]
            /\ before' = encoded_ids
            /\ UNCHANGED <<encoded_ids, ledger>>
            /\ UNCHANGED <<naming_vars, chunk_vars, other_vars>>

Next ==
    \/ generate_chunk_id
    \/ register_samples_to_last_chunk_id
    \/ getitem
    \/ get_local_sample_index

Spec == Init /\ [][Next]_vars

\* ---------------------------------------------------------------------------
\* The naming functions on their own: a chunk id is picked, rendered as a name
\* and the name is read back.

NamingInit ==
    /\ EncoderInit
    /\ OtherIdle
    /\ ChunkIdle
    /\ \E id \in NameIds :
           naming = [op |-> "pick", id |-> id, name |-> <<>>, parsed |-> NoReturn]

name_from_id_call ==
    /\ naming.op = "pick"
    /\ naming' = [naming EXCEPT !.op = "name_from_id", !.name = name_from_id(naming.id)]
    /\ UNCHANGED <<encoder_vars, chunk_vars, other_vars>>

id_from_name_call ==
    /\ naming.op = "name_from_id"
    /\ naming' = [naming EXCEPT !.op = "id_from_name",
                                !.parsed = id_from_name(naming.name)]
    /\ UNCHANGED <<encoder_vars, chunk_vars, other_vars>>

NamingNext ==
    \/ name_from_id_call
    \/ id_from_name_call

SpecNaming == NamingInit /\ [][NamingNext]_vars

\* ---------------------------------------------------------------------------
\* A chunk of a tensor: samples are appended while they fit, registered in the
\* headers and the tensor meta, and updated in place.

\* min_chunk_size of the chunk.
MinChunkSize == 10
\* A chunk is given at most MaxSamples samples.
MaxSamples == 3
\* The bookkeeping calls register at most MaxRegistrations samples.
MaxRegistrations == 2

SampleSizes == {2, 5}
BufferSizes == {0, 1}
\* The bytes written by an update; an appended sample is filled with its
\* ordinal in the chunk.
UpdateBytes == {255}
SampleShapes == {<<2>>, <<1, 2>>}
\* The shape of an array of n bytes in a tensor of 1 or 2 dimensions.
ShapeOf(dims, n) == IF dims = 1 THEN <<n>> ELSE <<1, n>>
OptionalSizes == {None} \cup {Some(n) : n \in SampleSizes}
LocalIndices == 0..MaxSamples

Bytes(n, fill) == [k \in 1..n |-> fill]

Snapshot == [chunk |-> chunk, tensor_meta |-> tensor_meta]

ChunkInit ==
    /\ EncoderInit
    /\ OtherIdle
    /\ NamingIdle
    /\ tensor_meta = TensorMeta("generic")
    /\ \E max_chunk_size \in {MinChunkSize, 2 * MinChunkSize} :
           chunk = BaseChunk(MinChunkSize, max_chunk_size, TensorMeta("generic"), None)
    /\ chunk_call = NoChunkCall
    /\ chunk_before = Snapshot
    /\ \E dims \in {1, 2} :
           chunk_log = [ChunkLogInit(TensorMeta("generic")) EXCEPT !.dims = dims]

can_fit_sample_call ==
    /\ \E sample_nbytes \in SampleSizes, buffer_nbytes \in BufferSizes :
           chunk_call' = [op |-> "can_fit_sample", exc |-> "none",
                          sample_nbytes |-> sample_nbytes, buffer_nbytes |-> buffer_nbytes,
                          ret |-> can_fit_sample(chunk, sample_nbytes, buffer_nbytes)]
    /\ chunk_before' = Snapshot
    /\ UNCHANGED <<chunk, tensor_meta, chunk_log, encoder_vars, naming_vars, other_vars>>

\* extend_if_has_space(incoming_sample) of a chunk that stores the serialized
\* bytes as they are: the sample is appended and registered when it fits and
\* refused otherwise.
extend_if_has_space ==
    \E n \in SampleSizes, version \in FfwVersions(chunk) :
        /\ EncLen(chunk.shapes_encoder) < MaxSamples \/ ~can_fit_sample(chunk, n, 0)
        /\ chunk_before' = Snapshot
        /\ IF can_fit_sample(chunk, n, 0)
           THEN LET prepared == prepare_for_write(chunk, version)
                    data == prepared.data_bytes \o Bytes(n, EncLen(chunk.shapes_encoder) + 1)
                    grown == [prepared EXCEPT !.data_bytes = data]
                    out == register_in_meta_and_headers(grown, tensor_meta, Some(n),
                                                        ShapeOf(chunk_log.dims, n))
                IN  /\ chunk' = out.chunk
                    /\ tensor_meta' = out.meta
                    /\ chunk_call' = [op |-> "extend_if_has_space", exc |-> out.exc,
                                       sample_nbytes |-> n, ret |-> 1]
                    /\ chunk_log' = [WriteThrough(chunk_log, prepared, data)
                                        EXCEPT !.registrations = @ + 1]
           ELSE /\ chunk_call' = [op |-> "extend_if_has_space", exc |-> "none",
                                   sample_nbytes |-> n, ret |-> 0]
                /\ UNCHANGED <<chunk, tensor_meta, chunk_log>>
        /\ UNCHANGED <<encoder_vars, naming_vars, other_vars>>

register_in_meta_and_headers_call ==
    \E sample_nbytes \in OptionalSizes, shape \in SampleShapes :
        LET out == register_in_meta_and_headers(chunk, tensor_meta, sample_nbytes, shape)
        IN  /\ EncLen(chunk.shapes_encoder) < MaxRegistrations
            /\ chunk' = out.chunk
            /\ tensor_meta' = out.meta
            /\ chunk_call' = [op |-> "register_in_meta_and_headers", exc |-> out.exc,
                               sample_nbytes |-> sample_nbytes, shape |-> shape]
            /\ chunk_before' = Snapshot
            /\ chunk_log' = [chunk_log EXCEPT
                                !.registrations = @ + 1,
                                !.without_nbytes = IF sample_nbytes = None THEN @ + 1 ELSE @]
            /\ UNCHANGED <<encoder_vars, naming_vars, other_vars>>

update_in_meta_and_headers_call ==
    \E local_sample_index \in LocalIndices, sample_nbytes \in OptionalSizes,
       shape \in SampleShapes :
        LET out == update_in_meta_and_headers(chunk, tensor_meta, local_sample_index,
                                              sample_nbytes, shape)
        IN  /\ chunk' = out.chunk
            /\ tensor_meta' = out.meta
            /\ chunk_call' = [op |-> "update_in_meta_and_headers", exc |-> out.exc,
                               local_sample_index |-> local_sample_index,
                               sample_nbytes |-> sample_nbytes, shape |-> shape]
            /\ chunk_before' = Snapshot
            /\ UNCHANGED <<chunk_log, encoder_vars, naming_vars, other_vars>>

check_shape_for_update_call ==
    /\ \E local_sample_index \in LocalIndices, shape \in SampleShapes :
           chunk_call' = [op |-> "check_shape_for_update",
                          exc |-> check_shape_for_update(chunk, local_sample_index, shape),
                          local_sample_index |-> local_sample_index, shape |-> shape]
    /\ chunk_before' = Snapshot
    /\ UNCHANGED <<chunk, tensor_meta, chunk_log, encoder_vars, naming_vars, other_vars>>

\* update_sample(local_sample_index, new_buffer, new_shape) of the same kind of
\* chunk: the shape is validated, the new bytes are spliced into the data and
\* the headers and the meta are updated.
update_sample ==
    \E local_sample_index \in LocalIndices, n \in SampleSizes, fill \in UpdateBytes,
       dims \in {1, 2}, version \in FfwVersions(chunk) :
        LET new_shape == ShapeOf(dims, n)
            checked == check_shape_for_update(chunk, local_sample_index, new_shape)
            buffer == create_buffer_with_updated_data(chunk, local_sample_index,
                                                      chunk.data_bytes, Bytes(n, fill))
            prepared == prepare_for_write(chunk, version)
            spliced == [prepared EXCEPT !.data_bytes = buffer.ret]
            out == update_in_meta_and_headers(spliced, tensor_meta, local_sample_index,
                                              Some(n), new_shape)
            refused == checked # "none" \/ buffer.exc # "none"
            exc == IF checked # "none" THEN checked
                   ELSE IF buffer.exc # "none" THEN buffer.exc ELSE out.exc
        IN  /\ chunk' = IF refused THEN chunk ELSE out.chunk
            /\ tensor_meta' = IF refused THEN tensor_meta ELSE out.meta
            /\ chunk_call' = [op |-> "update_sample", exc |-> exc,
                               local_sample_index |-> local_sample_index,
                               sample_nbytes |-> Some(n), shape |-> new_shape]
            /\ chunk_before' = Snapshot
            /\ chunk_log' =
                   [(IF refused THEN chunk_log
                     ELSE WriteThrough(chunk_log, prepared, buffer.ret))
                       EXCEPT !.only_appends =
                                 @ /\ Len(chunk'.data_bytes) <= Len(chunk.data_bytes)]
            /\ UNCHANGED <<encoder_vars, naming_vars, other_vars>>

\* create_buffer_with_updated_data(local_sample_index, old_data,
\* new_sample_bytes) with the chunk's own data as old_data.
create_buffer_with_updated_data_call ==
    /\ \E local_sample_index \in LocalIndices, n \in SampleSizes, fill \in UpdateBytes :
           LET out == create_buffer_with_updated_data(chunk, local_sample_index,
                                                      chunk.data_bytes, Bytes(n, fill))
           IN  chunk_call' = [op |-> "create_buffer_with_updated_data", exc |-> out.exc,
                              local_sample_index |-> local_sample_index,
                              old_data |-> chunk.data_bytes,
                              new_sample_bytes |-> Bytes(n, fill), ret |-> out.ret]
    /\ chunk_before' = Snapshot
    /\ UNCHANGED <<chunk, tensor_meta, chunk_log, encoder_vars, naming_vars, other_vars>>

\* Samples are written to a chunk and updated in place.
ChunkNext ==
    \/ can_fit_sample_call
    \/ extend_if_has_space
    \/ check_shape_for_update_call
    \/ update_sample
    \/ create_buffer_with_updated_data_call

SpecChunk == ChunkInit /\ [][ChunkNext]_vars

\* ---------------------------------------------------------------------------
\* A chunk that is written, serialized, read back from a buffer and written
\* again.

\* A buffer written by an older release: one sample of two bytes.
OldBuffer ==
    serialize_chunk(OldVersion, ShapeArray(<<(<<(<<2>>), 1>>)>>),
                    BytePositionsArray(<<(<<2, 1>>)>>), <<9, 9>>)

\* A buffer that holds headers without samples and no data.
EmptyChunkBuffer == serialize_chunk(HubVersion, <<>>, <<>>, <<>>)

StoreInit ==
    /\ EncoderInit
    /\ OtherIdle
    /\ NamingIdle
    /\ tensor_meta = TensorMeta("generic")
    /\ chunk = BaseChunk(MinChunkSize, 2 * MinChunkSize, TensorMeta("generic"), None)
    /\ chunk_call = NoChunkCall
    /\ chunk_before = Snapshot
    /\ chunk_log = ChunkLogInit(TensorMeta("generic"))

nbytes_call ==
    /\ chunk_call' = [op |-> "nbytes", exc |-> "none", ret |-> nbytes(chunk)]
    /\ chunk_before' = Snapshot
    /\ UNCHANGED <<chunk, tensor_meta, chunk_log, encoder_vars, naming_vars, other_vars>>

tobytes_call ==
    /\ chunk_call' = [op |-> "tobytes", exc |-> "none", ret |-> tobytes(chunk)]
    /\ chunk_before' = Snapshot
    /\ UNCHANGED <<chunk, tensor_meta, chunk_log, encoder_vars, naming_vars, other_vars>>

\* The metadata of the tensor the buffer belongs to, which the caller passes
\* in chunk_args.
MetaOfBuffer(buffer) ==
    IF buffer = OldBuffer
    THEN [TensorMeta("generic") EXCEPT !.length = 1, !.min_shape = <<2>>, !.max_shape = <<2>>]
    ELSE TensorMeta("generic")

frombuffer_call ==
    \E buffer \in {<<>>, EmptyChunkBuffer, OldBuffer} :
        /\ chunk' = frombuffer(buffer, ChunkArgs(chunk, MetaOfBuffer(buffer)))
        /\ tensor_meta' = MetaOfBuffer(buffer)
        /\ chunk_call' = [op |-> "frombuffer", exc |-> "none", buffer |-> buffer]
        /\ chunk_before' = Snapshot
        /\ chunk_log' = [ChunkLogInit(MetaOfBuffer(buffer))
                            EXCEPT !.source = buffer, !.source_given = buffer]
        /\ UNCHANGED <<encoder_vars, naming_vars, other_vars>>

copy_call ==
    /\ chunk' = copy(chunk, ChunkArgs(chunk, tensor_meta))
    /\ chunk_call' = [op |-> "copy", exc |-> "none", buffer |-> tobytes(chunk)]
    /\ chunk_before' = Snapshot
    /\ chunk_log' = [chunk_log EXCEPT !.source = tobytes(chunk),
                                      !.source_given = tobytes(chunk)]
    /\ UNCHANGED <<tensor_meta, encoder_vars, naming_vars, other_vars>>

prepare_for_write_call ==
    \E version \in FfwVersions(chunk) :
        /\ chunk' = prepare_for_write(chunk, version)
        /\ chunk_call' = [op |-> "prepare_for_write", exc |-> "none"]
        /\ chunk_before' = Snapshot
        /\ UNCHANGED <<tensor_meta, chunk_log, encoder_vars, naming_vars, other_vars>>

StoreNext ==
    \/ extend_if_has_space
    \/ update_sample
    \/ nbytes_call
    \/ tobytes_call
    \/ frombuffer_call
    \/ copy_call
    \/ prepare_for_write_call

SpecStore == StoreInit /\ [][StoreNext]_vars

\* ---------------------------------------------------------------------------
\* Serialization of incoming samples by chunks of every configuration.

\* min_chunk_size of the serializing chunk.
SerializeMinSize == 4

ArrayShapes == {<<>>, <<2>>, <<2, 2>>, <<3, 2>>, <<2, 2, 1>>, <<2, 2, 3>>}
CompressedLengths == {3, 4, 5}
Compressions == {None, Some("png"), Some("lz4")}

IncomingSamples ==
    {SampleValue(kind, shape, Prod(shape), compressed) :
        kind \in {"Sample", "ndarray"}, shape \in ArrayShapes,
        compressed \in CompressedLengths}
    \cup {SampleValue("SampleTiles", shape, Prod(shape), 0) : shape \in {<<>>, <<2, 2, 3>>}}
    \cup {SampleValue("bytes", <<>>, n, 0) : n \in {0, 5}}
    \cup {SampleValue(kind, <<>>, 5, 3) : kind \in {"str", "dict", "NoneType"}}

OptionalShapes == {None} \cup {Some(shape) : shape \in ArrayShapes}

SerializeInit ==
    /\ EncoderInit
    /\ OtherIdle
    /\ NamingIdle
    /\ \E htype \in {"generic", "image", "text"}, max_shape \in {<<>>, <<2, 2, 1>>} :
           tensor_meta = [TensorMeta(htype) EXCEPT
                            !.min_shape = max_shape, !.max_shape = max_shape,
                            !.length = IF max_shape = <<>> THEN 0 ELSE 1]
    /\ \E max_chunk_size \in {SerializeMinSize, 2 * SerializeMinSize},
          compression \in {None, Some("png")} :
           chunk = BaseChunk(SerializeMinSize, max_chunk_size, tensor_meta, compression)
    /\ chunk_call = NoChunkCall
    /\ chunk_before = Snapshot
    /\ \E CONVERT_GRAYSCALE \in BOOLEAN :
           chunk_log = [ChunkLogInit(tensor_meta) EXCEPT
                          !.CONVERT_GRAYSCALE = CONVERT_GRAYSCALE]

serialize_sample_call ==
    \E incoming_sample \in IncomingSamples, sample_compression \in Compressions :
        LET r == serialize_sample(chunk, incoming_sample, sample_compression,
                                  chunk_log.CONVERT_GRAYSCALE)
        IN  /\ chunk' = [chunk EXCEPT !.num_dims = r.num_dims]
            /\ chunk_call' = [op |-> "serialize_sample", exc |-> r.exc,
                               incoming_sample |-> incoming_sample,
                               sample_compression |-> sample_compression,
                               out |-> r.out, shape |-> r.shape]
            /\ chunk_before' = Snapshot
            /\ UNCHANGED <<tensor_meta, chunk_log, encoder_vars, naming_vars, other_vars>>

convert_to_rgb_call ==
    \E shape \in ArrayShapes :
        LET r == convert_to_rgb(chunk, shape, chunk_log.CONVERT_GRAYSCALE)
        IN  /\ chunk' = [chunk EXCEPT !.num_dims = r.num_dims]
            /\ chunk_call' = [op |-> "convert_to_rgb", exc |-> "none",
                               arg |-> shape, shape |-> r.shape]
            /\ chunk_before' = Snapshot
            /\ UNCHANGED <<tensor_meta, chunk_log, encoder_vars, naming_vars, other_vars>>

normalize_shape_call ==
    /\ \E shape \in OptionalShapes :
           chunk_call' = [op |-> "normalize_shape", exc |-> "none",
                          arg |-> shape, shape |-> normalize_shape(shape)]
    /\ chunk_before' = Snapshot
    /\ UNCHANGED <<chunk, tensor_meta, chunk_log, encoder_vars, naming_vars, other_vars>>

SerializeNext ==
    \/ serialize_sample_call
    \/ convert_to_rgb_call
    \/ normalize_shape_call

SpecSerialize == SerializeInit /\ [][SerializeNext]_vars

\* The bookkeeping calls on their own, in any order.
HeadersNext ==
    \/ register_in_meta_and_headers_call
    \/ update_in_meta_and_headers_call

\* A new chunk of a tensor that is empty or holds one sample in other chunks.
HeadersInit ==
    /\ EncoderInit
    /\ OtherIdle
    /\ NamingIdle
    /\ tensor_meta \in {TensorMeta("generic"),
                         [TensorMeta("generic") EXCEPT
                            !.length = 1, !.min_shape = <<2>>, !.max_shape = <<2>>]}
    /\ chunk = BaseChunk(MinChunkSize, MinChunkSize, tensor_meta, None)
    /\ chunk_call = NoChunkCall
    /\ chunk_before = Snapshot
    /\ chunk_log = ChunkLogInit(tensor_meta)

SpecHeaders == HeadersInit /\ [][HeadersNext]_vars

\* ---------------------------------------------------------------------------
\* A run-length positional encoder on its own: values are registered in runs
\* and replaced one index at a time.

MaxRleLen == 4
RleValues == {2, 5}
RleCounts == {-1, 0, 1, 2}
RleIndices == (-MaxRleLen - 1)..MaxRleLen

CoreIdle == EncoderInit /\ NamingIdle /\ ChunkIdle

RleInit == CoreIdle /\ RleIdle /\ DatasetIdle /\ TransformIdle

Repeat(value, count) == [k \in 1..count |-> value]

rle_register ==
    \E value \in RleValues, count \in RleCounts :
        LET out == EncRegister(rle, value, count)
        IN  /\ EncLen(rle) + count <= MaxRleLen
            /\ rle' = out.rows
            /\ rle_log' = [values |-> IF out.exc = "none"
                                      THEN rle_log.values \o Repeat(value, count)
                                      ELSE rle_log.values,
                           call |-> [op |-> "register", exc |-> out.exc,
                                     value |-> value, count |-> count],
                           before |-> rle]
            /\ UNCHANGED <<encoder_vars, naming_vars, chunk_vars, dataset_vars,
                           transform_vars>>

rle_update ==
    \E local_index \in RleIndices, value \in RleValues :
        LET out == EncUpdate(rle, local_index, value)
            k == EncResolve(rle, local_index)
        IN  /\ rle' = out.rows
            /\ rle_log' = [values |-> IF out.exc = "none"
                                      THEN [rle_log.values EXCEPT ![k + 1] = value]
                                      ELSE rle_log.values,
                           call |-> [op |-> "update", exc |-> out.exc,
                                     local_index |-> local_index, value |-> value],
                           before |-> rle]
            /\ UNCHANGED <<encoder_vars, naming_vars, chunk_vars, dataset_vars,
                           transform_vars>>

RleNext == rle_register \/ rle_update

SpecRle == RleInit /\ [][RleNext]_vars

\* ---------------------------------------------------------------------------
\* A Dataset that is used inside and outside a with-block.

MaxDatasetSamples == 2
TensorNames == {"images", "labels"}
Items == [kind : {"str"}, value : TensorNames]
            \cup [kind : {"int"}, value : {0, 1}]
            \cup [kind : {"float"}, value : {0}]

DatasetInit == CoreIdle /\ RleIdle /\ DatasetIdle /\ TransformIdle

DatasetCall(op, exc) == [op |-> op, exc |-> exc]

\* with ds: ...
dataset_enter ==
    /\ ~ds.in_with
    /\ storage' = [storage EXCEPT !.autoflush = FALSE]
    /\ ds' = [ds EXCEPT !.in_with = TRUE, !.call = DatasetCall("__enter__", "none")]
    /\ UNCHANGED <<encoder_vars, naming_vars, chunk_vars, rle_vars, transform_vars>>

dataset_exit ==
    /\ ds.in_with
    /\ storage' = flush([storage EXCEPT !.autoflush = TRUE])
    /\ ds' = [ds EXCEPT !.in_with = FALSE, !.call = DatasetCall("__exit__", "none")]
    /\ UNCHANGED <<encoder_vars, naming_vars, chunk_vars, rle_vars, transform_vars>>

\* ds[item]: a tensor for a name, a Dataset view on the same storage for an
\* int; the view's __init__ runs _set_derived_attributes on that storage.
dataset_getitem ==
    \E item \in Items :
        /\ storage' = IF item.kind = "int" THEN set_derived_attributes(storage)
                       ELSE storage
        /\ ds' = [ds EXCEPT !.call =
                     [op |-> "__getitem__", item |-> item,
                      exc |-> IF item.kind = "str" /\ item.value \notin DOMAIN ds.tensors
                              THEN "TensorDoesNotExistError"
                              ELSE IF item.kind \in {"str", "int"} THEN "none"
                              ELSE "InvalidKeyTypeError"]]
        /\ UNCHANGED <<encoder_vars, naming_vars, chunk_vars, rle_vars, transform_vars>>

\* for sample in ds: ... , run to its end: self[i] for every i in range(len(self)).
dataset_iter ==
    /\ storage' = IF dataset_num_samples(ds.tensors) > 0
                   THEN set_derived_attributes(storage) ELSE storage
    /\ ds' = [ds EXCEPT !.call = DatasetCall("__iter__", "none")]
    /\ UNCHANGED <<encoder_vars, naming_vars, chunk_vars, rle_vars, transform_vars>>

dataset_create_tensor ==
    \E name \in TensorNames :
        IF name \in DOMAIN ds.tensors
        THEN /\ ds' = [ds EXCEPT !.call = DatasetCall("create_tensor", "TensorAlreadyExistsError")]
             /\ UNCHANGED <<storage, encoder_vars, naming_vars, chunk_vars, rle_vars,
                            transform_vars>>
        ELSE /\ storage' = maybe_flush(SetItem(storage, {name, DatasetMetaKey}))
             /\ ds' = [ds EXCEPT
                         !.tensors = [t \in DOMAIN @ \cup {name} |->
                                         IF t \in DOMAIN @ THEN @[t] ELSE 0],
                         !.call = DatasetCall("create_tensor", "none")]
             /\ UNCHANGED <<encoder_vars, naming_vars, chunk_vars, rle_vars, transform_vars>>

\* ds[name].append(sample): the tensor grows by one sample and its chunk is
\* written to the storage.
tensor_append ==
    \E name \in DOMAIN ds.tensors :
        /\ ds.tensors[name] < MaxDatasetSamples
        /\ storage' = maybe_flush(SetItem(storage, {name}))
        /\ ds' = [ds EXCEPT !.tensors[name] = @ + 1,
                             !.call = DatasetCall("append", "none")]
        /\ UNCHANGED <<encoder_vars, naming_vars, chunk_vars, rle_vars, transform_vars>>

dataset_flush ==
    /\ storage' = flush(storage)
    /\ ds' = [ds EXCEPT !.call = DatasetCall("flush", "none")]
    /\ UNCHANGED <<encoder_vars, naming_vars, chunk_vars, rle_vars, transform_vars>>

DatasetNext ==
    \/ dataset_enter
    \/ dataset_exit
    \/ dataset_getitem
    \/ dataset_iter
    \/ dataset_create_tensor
    \/ tensor_append
    \/ dataset_flush

SpecDataset == DatasetInit /\ [][DatasetNext]_vars

\* ---------------------------------------------------------------------------
\* A TransformTensor that samples are added to and that is indexed.  The
\* samples are numbered in the order they are added.

MaxTransformSamples == 4
BatchSizes == {0, 1, 2}
TransformIndices == (-MaxTransformSamples - 1)..MaxTransformSamples

TransformInit ==
    /\ CoreIdle /\ RleIdle /\ DatasetIdle
    /\ \E is_group \in BOOLEAN, all_chunk_engines \in BOOLEAN :
           LET tt == TransformTensor(TransformDataset(all_chunk_engines), is_group)
           IN  /\ transform_tensor = tt
               /\ transform_log = TransformLogInit(tt)

\* The next n samples.
NextSamples(n) == [k \in 1..n |-> Len(transform_log.added) + k]

transform_append ==
    LET out == append(transform_tensor, NextSamples(1)[1])
    IN  /\ Len(transform_log.added) < MaxTransformSamples
        /\ transform_tensor' = out.tt
        /\ transform_log' = [added |-> transform_log.added \o NextSamples(out.added),
                             call |-> [op |-> "append", exc |-> out.exc,
                                       is_ndarray |-> FALSE, n |-> 1,
                                       item_added |-> out.item_added],
                             before |-> transform_tensor]
        /\ UNCHANGED <<encoder_vars, naming_vars, chunk_vars, rle_vars, dataset_vars>>

transform_extend ==
    \E n \in BatchSizes, is_ndarray \in BOOLEAN :
        LET out == extend(transform_tensor, NextSamples(n), is_ndarray)
        IN  /\ Len(transform_log.added) + n <= MaxTransformSamples
            /\ Len(transform_tensor.items) < MaxTransformSamples
            /\ transform_tensor' = out.tt
            /\ transform_log' = [added |-> transform_log.added \o NextSamples(out.added),
                                 call |-> [op |-> "extend", exc |-> out.exc,
                                           is_ndarray |-> is_ndarray, n |-> n,
                                           item_added |-> out.item_added],
                                 before |-> transform_tensor]
            /\ UNCHANGED <<encoder_vars, naming_vars, chunk_vars, rle_vars, dataset_vars>>

transform_non_numpy_only ==
    /\ transform_tensor' = non_numpy_only(transform_tensor)
    /\ transform_log' = [transform_log EXCEPT
                            !.call = [op |-> "non_numpy_only", exc |-> "none"],
                            !.before = transform_tensor]
    /\ UNCHANGED <<encoder_vars, naming_vars, chunk_vars, rle_vars, dataset_vars>>

\* tensor[item] for an int or the whole slice: self.idx = item.
transform_getitem ==
    \E item \in {WholeSlice} \cup {IntIndex(i) : i \in TransformIndices} :
        /\ transform_tensor' = [transform_tensor EXCEPT !.idx = item]
        /\ transform_log' = [transform_log EXCEPT
                                !.call = [op |-> "__getitem__", exc |-> "none"],
                                !.before = transform_tensor]
        /\ UNCHANGED <<encoder_vars, naming_vars, chunk_vars, rle_vars, dataset_vars>>

transform_numpy_compressed ==
    /\ transform_log' = [transform_log EXCEPT
                            !.call = [op |-> "numpy_compressed",
                                      exc |-> numpy_compressed(transform_tensor).exc,
                                      ret |-> numpy_compressed(transform_tensor).ret],
                            !.before = transform_tensor]
    /\ UNCHANGED <<transform_tensor, encoder_vars, naming_vars, chunk_vars, rle_vars,
                   dataset_vars>>

TransformNext ==
    \/ transform_append
    \/ transform_extend
    \/ transform_non_numpy_only
    \/ transform_getitem
    \/ transform_numpy_compressed

SpecTransform == TransformInit /\ [][TransformNext]_vars

---------------------------------------------------------------------------
(* Vocabulary of the properties.                                           *)

Generated == ledger # <<>>

\* Every generate_chunk_id() but the last was followed by a registration of
\* one sample or more before the next generate_chunk_id().
EveryChunkHoldsSamples == \A i \in 1..(Len(ledger) - 1) : ledger[i].samples >= 1

\* Every generate_chunk_id() but the last was followed by a successful
\* register_samples_to_last_chunk_id(n), n >= 0, before the next one.
RespectsStateMachine == \A i \in 1..(Len(ledger) - 1) : ledger[i].registered

IsRegister == call.op = "register_samples_to_last_chunk_id"
IsGenerate == call.op = "generate_chunk_id"
IsGetItem == call.op = "__getitem__"
IsLocalIndex == call.op = "get_local_sample_index"

---------------------------------------------------------------------------
(* Properties.                                                             *)

\* C1: in a sequence that starts with generate_chunk_id() and registers one
\* sample or more to every chunk before the next generate_chunk_id(), every
\* register_samples_to_last_chunk_id(n), n >= 1, succeeds and leaves
\* num_samples equal to the sum of all n registered so far.
C1_RegisterSumsSamples ==
    (IsRegister /\ call.arg >= 1 /\ Generated /\ EveryChunkHoldsSamples)
        => (call.exc = "none" /\ num_samples = Total)

\* C1 witness: the docstring's last step, a registration to a second chunk
\* after two registrations to the first.
C1_Witness ==
    /\ IsRegister /\ call.arg = 1 /\ call.exc = "none"
    /\ Len(ledger) = 2 /\ ledger[1].samples = 2 /\ ledger[2].samples = 1
    /\ num_samples = 3 /\ num_chunks = 2

\* C4: register_samples_to_last_chunk_id(n), n >= 1, on an encoder on which
\* generate_chunk_id() was never called raises ChunkIdEncoderError and leaves
\* the rows, num_chunks and num_samples as they were.
C4_RegisterBeforeGenerateFails ==
    (IsRegister /\ call.arg >= 1 /\ ~Generated)
        => /\ call.exc = "ChunkIdEncoderError"
           /\ encoded_ids = before
           /\ num_chunks = 0 /\ num_samples = 0

C4_Witness ==
    IsRegister /\ call.arg >= 1 /\ ~Generated /\ call.exc = "ChunkIdEncoderError"

\* C5: register_samples_to_last_chunk_id(0) raises ChunkIdEncoderError and
\* changes nothing when fewer than two chunks exist, and with two chunks or
\* more it succeeds and leaves every row, num_chunks and num_samples as they
\* were.
C5_RegisterZero ==
    (IsRegister /\ call.arg = 0)
        => /\ call.exc = IF NumChunks(before) < 2 THEN "ChunkIdEncoderError" ELSE "none"
           /\ encoded_ids = before
           /\ num_chunks = NumChunks(before)
           /\ num_samples = NumSamples(before)

\* C5 witness: a zero-sample continuation registered to a second chunk whose
\* predecessor holds samples.
C5_Witness ==
    /\ IsRegister /\ call.arg = 0 /\ call.exc = "none"
    /\ Len(ledger) = 2 /\ ledger[1].samples >= 1 /\ ledger[2].registered

\* C6: register_samples_to_last_chunk_id(n), n < 0, raises ValueError in
\* every state of the encoder, one without a chunk id included, and leaves
\* the encoder as it was.
C6_RegisterNegativeFails ==
    (IsRegister /\ call.arg < 0)
        => (call.exc = "ValueError" /\ encoded_ids = before)

\* C6 witness: the negative count meets an encoder without any chunk id.
C6_Witness ==
    IsRegister /\ call.arg < 0 /\ ~Generated /\ call.exc = "ValueError"

\* C7: with num_samples > 0, encoder[g] for a negative g >= -num_samples
\* returns the chunk id and the row index that encoder[g + num_samples]
\* returns, and a lookup leaves the encoder as it was.
C7_NegativeIndexFromEnd ==
    /\ \A g \in Indices :
        (num_samples > 0 /\ g < 0 /\ 0 - num_samples <= g)
            => /\ GetItem(encoded_ids, g).exc = "none"
               /\ GetItem(encoded_ids, g) = GetItem(encoded_ids, g + num_samples)
    /\ IsGetItem => encoded_ids = before

\* C7 witness: encoder[-1] answered with the second of two chunks that hold
\* samples.
C7_Witness ==
    /\ IsGetItem /\ call.arg = 0 - 1 /\ call.exc = "none"
    /\ Len(call.ret) = 2 /\ call.ret[2] = 1
    /\ Len(ledger) = 2 /\ ledger[1].samples >= 1 /\ ledger[2].samples >= 1

\* C2: in a sequence that respects the state machine, encoder[g] for every
\* g with 0 <= g < num_samples returns the chunk id of the row r such that
\* the rows before r hold at most g samples and the rows up to r hold at
\* least g + 1.
C2_LookupFindsOwningChunk ==
    RespectsStateMachine =>
        \A g \in 0..MaxIndex :
            g < num_samples =>
                LET out == GetItem(encoded_ids, g)
                IN  /\ out.exc = "none"
                    /\ LET r == out.ret[2] + 1
                       IN  /\ out.ret[1] = encoded_ids[r][CHUNK_ID_INDEX + 1]
                           /\ Registered(r - 1) <= g
                           /\ Registered(r) >= g + 1

\* C3: every generate_chunk_id() appends exactly one row: num_chunks grows
\* by one, the rows there were stay as they were, num_samples stays as it
\* was, and the last index of the new row is num_samples - 1 (the -1
\* sentinel when no samples are registered anywhere).
C3_GenerateAppendsOneRow ==
    IsGenerate =>
        /\ num_chunks = NumChunks(before) + 1
        /\ SubSeq(encoded_ids, 1, Len(before)) = before
        /\ num_samples = NumSamples(before)
        /\ encoded_ids[Len(encoded_ids)][LAST_INDEX_INDEX + 1]
               = U64(NumSamples(before) - 1)

\* The index g is out of bounds for the encoder.
OutOfBounds(g) == num_samples = 0 \/ g >= num_samples \/ g < 0 - num_samples

\* C8: encoder[g] raises IndexError when the encoder has no registered
\* samples, when g >= num_samples and when g < -num_samples; it never returns
\* a chunk id for an index out of bounds.
C8_LookupOutOfBoundsFails ==
    (IsGetItem /\ OutOfBounds(call.arg)) => call.exc = "IndexError"

\* C9: for every valid g >= 0, get_local_sample_index(g) is g when the owning
\* row is the first row and g - (previous row's last index + 1) otherwise,
\* and it is at least 0 and less than the number of samples registered to
\* the owning chunk.
C9_LocalIndexInOwningChunk ==
    \A g \in 0..MaxIndex :
        g < num_samples =>
            LET found == GetItem(encoded_ids, g)
                out == GetLocalSampleIndex(encoded_ids, g)
            IN  /\ found.exc = "none" /\ out.exc = "none"
                /\ LET r == found.ret[2] + 1
                       local == out.ret[1]
                   IN  /\ local = IF r = 1 THEN g
                                  ELSE g - (encoded_ids[r - 1][LAST_INDEX_INDEX + 1] + 1)
                       /\ local >= 0
                       /\ local < ledger[r].samples

\* C10: in every state reached by calls that succeed, the last-index column
\* is non-decreasing from row to row, two neighbours being equal only when
\* the later row has no samples registered.
C10_ColumnSorted ==
    \A i \in 2..Len(encoded_ids) :
        /\ Column(encoded_ids)[i] >= Column(encoded_ids)[i - 1]
        /\ (Column(encoded_ids)[i] = Column(encoded_ids)[i - 1])
               => ledger[i].samples = 0

\* C11: in every reachable state the chunk ids of the rows are pairwise
\* distinct, and generate_chunk_id() never returns an id that a row already
\* holds.
C11_ChunkIdsDistinct ==
    /\ \A i, j \in 1..NumChunks(encoded_ids) :
           i # j => encoded_ids[i][CHUNK_ID_INDEX + 1] # encoded_ids[j][CHUNK_ID_INDEX + 1]
    /\ IsGenerate =>
           \A i \in 1..NumChunks(before) : before[i][CHUNK_ID_INDEX + 1] # call.ret[1]

\* The number of hexadecimal digits of x: the least k >= 1 with x < 16^k.
HexWidth(x) == CHOOSE k \in 1..WordBits : x < 16 ^ k /\ (k = 1 \/ x >= 16 ^ (k - 1))

\* C12: the name of a chunk id x is its lowercase hexadecimal rendering with no
\* prefix (only characters 0-9a-f, no leading zero, as many digits as x needs),
\* reading the name back gives x, and no other id has the same name.
C12_NameRoundTrip ==
    /\ naming.op \in {"name_from_id", "id_from_name"} =>
           /\ \A i \in 1..Len(naming.name) : IsHexChar(naming.name[i])
           /\ Len(naming.name) = HexWidth(naming.id)
           /\ DigitsValue(naming.name) = naming.id
           /\ \A y \in NameIds : name_from_id(y) = naming.name => y = naming.id
    /\ naming.op = "id_from_name" =>
           naming.parsed = [exc |-> "none", ret |-> naming.id]

C12_Witness ==
    /\ naming.op = "id_from_name"
    /\ naming.id = Two64 - 1
    /\ Len(naming.name) > 1
    /\ naming.name[1] = "f"
    /\ naming.parsed.ret = Two64 - 1

\* C13: can_fit_sample(s, b) is true exactly when num_data_bytes + b + s is
\* below min_chunk_size, whatever max_chunk_size is, and a chunk whose data
\* grew only by accepted appends holds fewer than min_chunk_size data bytes.
C13_CapacityBelowMinSize ==
    /\ chunk_call.op = "can_fit_sample" =>
           (chunk_call.ret <=>
               Len(chunk.data_bytes) + chunk_call.buffer_nbytes + chunk_call.sample_nbytes
                   < chunk.min_chunk_size)
    /\ chunk_call.op = "extend_if_has_space" =>
           (chunk_call.ret = 1 <=>
               Len(chunk_before.chunk.data_bytes) + chunk_call.sample_nbytes
                   < chunk.min_chunk_size)
    /\ chunk_log.only_appends => Len(chunk.data_bytes) < chunk.min_chunk_size

\* Three samples of a fifth of min_chunk_size were accepted and a fourth of
\* half of min_chunk_size is refused.
C13_Witness ==
    /\ chunk_call.op = "extend_if_has_space"
    /\ chunk_call.ret = 0
    /\ chunk_call.sample_nbytes = 5
    /\ chunk.max_chunk_size = 2 * MinChunkSize
    /\ chunk_log.only_appends
    /\ chunk.byte_positions_encoder = <<(<<2, 3>>)>>
    /\ chunk.data_bytes = <<1, 1, 2, 2, 3, 3>>
    /\ Len(chunk.data_bytes) = 6

IsSerialize == chunk_call.op = "serialize_sample"

\* The size of what is stored for the sample of the last serialize_sample call.
StoredSize ==
    IF chunk_call.sample_compression = None THEN chunk_call.incoming_sample.nbytes
    ELSE chunk_call.incoming_sample.compressed

\* C14: on a chunk that is not text-like, a primitive/array-like sample and a
\* Sample object come back as SampleTiles exactly when the stored size (raw
\* nbytes without sample compression, compressed length with it) exceeds
\* min_chunk_size and as inline bytes of that size otherwise, whatever
\* max_chunk_size is.
C14_TilesIffExceedsMinSize ==
    (/\ IsSerialize
     /\ ~chunk.is_text_like
     /\ chunk_call.incoming_sample.kind \in {"Sample", "ndarray"}) =>
        /\ chunk_call.exc = "none"
        /\ chunk_call.out.kind = "SampleTiles" <=> StoredSize > chunk.min_chunk_size
        /\ chunk_call.out.kind = "bytes" <=> StoredSize <= chunk.min_chunk_size
        /\ chunk_call.out.kind = "bytes" => chunk_call.out.nbytes = StoredSize

\* A sample of more than min_chunk_size and at most max_chunk_size bytes is tiled.
C14_Witness ==
    /\ IsSerialize
    /\ ~chunk.is_text_like
    /\ chunk_call.incoming_sample.kind = "ndarray"
    /\ chunk_call.sample_compression = None
    /\ chunk_call.incoming_sample.nbytes > chunk.min_chunk_size
    /\ chunk_call.incoming_sample.nbytes <= chunk.max_chunk_size
    /\ chunk_call.out.kind = "SampleTiles"

\* The four kinds of sample the claim C15 lists, for the chunk of the last call.
ListedSample ==
    \/ chunk.is_text_like /\ chunk_call.incoming_sample.kind \in {"str", "dict"}
    \/ chunk_call.incoming_sample.kind \in {"Sample", "bytes", "ndarray"}

\* The last call raised and changed neither the chunk (data bytes, headers,
\* num_dims) nor the tensor meta.
RejectedWithoutEffect ==
    /\ chunk_call.exc # "none"
    /\ chunk = chunk_before.chunk
    /\ tensor_meta = chunk_before.tensor_meta

\* C15 as stated: serialize_sample rejects every sample that is none of a
\* text-like sample on a text-like chunk, a Sample object, raw bytes or a
\* primitive/array-like value, and the rejected call changes nothing.
C15_RejectsAllButFourKinds ==
    (IsSerialize /\ ~ListedSample) => RejectedWithoutEffect

\* C15 amended: on a chunk that is not text-like serialize_sample rejects with
\* TypeError every sample that is none of a Sample object, raw bytes, a
\* primitive/array-like value or a SampleTiles object, which it accepts and
\* returns as it is with its normalized sample_shape; on a text-like chunk every
\* sample goes to the text encoder; a rejected call changes neither the data
\* bytes, the headers, num_dims nor the tensor meta.
C15_RejectsAllButFourKindsAndTiles ==
    /\ (/\ IsSerialize
        /\ ~chunk.is_text_like
        /\ chunk_call.incoming_sample.kind \notin {"Sample", "bytes", "ndarray", "SampleTiles"}) =>
           (chunk_call.exc = "TypeError" /\ RejectedWithoutEffect)
    /\ (/\ IsSerialize
        /\ ~chunk.is_text_like
        /\ chunk_call.incoming_sample.kind = "SampleTiles") =>
           /\ chunk_call.exc = "none"
           /\ chunk_call.out.kind = "SampleTiles"
           /\ chunk_call.shape = normalize_shape(Some(chunk_call.incoming_sample.shape))
    /\ (IsSerialize /\ chunk_call.exc # "none") => RejectedWithoutEffect

C15_Witness ==
    /\ IsSerialize
    /\ chunk_call.incoming_sample.kind = "NoneType"
    /\ ~chunk.is_text_like
    /\ chunk.is_convert_candidate
    /\ chunk.num_dims = None
    /\ chunk_call.exc = "TypeError"

\* C16: the shape serialize_sample returns for an accepted sample is None (raw
\* bytes only) or has at least one dimension; normalize_shape rewrites the
\* shape () to (1,) and returns None and every shape of one or more dimensions
\* unchanged.
C16_ShapeNeverZeroDimensional ==
    /\ (IsSerialize /\ chunk_call.exc = "none") =>
           /\ chunk_call.shape = None \/ Len(chunk_call.shape[1]) >= 1
           /\ chunk_call.shape = None => chunk_call.incoming_sample.kind = "bytes"
           /\ (/\ ~chunk.is_text_like
               /\ chunk_call.incoming_sample.kind \in {"ndarray", "SampleTiles"}) =>
                  chunk_call.shape = IF chunk_call.incoming_sample.shape = <<>>
                                     THEN Some(<<1>>)
                                     ELSE Some(chunk_call.incoming_sample.shape)
    /\ chunk_call.op = "normalize_shape" =>
           chunk_call.shape = IF chunk_call.arg = Some(<<>>) THEN Some(<<1>>)
                              ELSE chunk_call.arg

C16_Witness ==
    /\ IsSerialize
    /\ chunk_call.exc = "none"
    /\ chunk_call.incoming_sample.kind = "ndarray"
    /\ chunk_call.incoming_sample.shape = <<>>
    /\ chunk_call.shape = Some(<<1>>)

IsRegisterInMeta == chunk_call.op = "register_in_meta_and_headers"

IsUpdateInMeta == chunk_call.op = "update_in_meta_and_headers"

\* C18: after any sequence of register_in_meta_and_headers and
\* update_in_meta_and_headers calls the shape header holds as many samples
\* more than the byte-position header as there were registrations with byte
\* length None, so the two counts are equal when every registration had a byte
\* length; such a registration adds one shape entry and no byte-position
\* entry, and an update changes neither count.
C18_HeaderCountsAgree ==
    /\ EncLen(chunk.shapes_encoder) =
           EncLen(chunk.byte_positions_encoder) + chunk_log.without_nbytes
    /\ chunk_log.without_nbytes = 0 =>
           EncLen(chunk.shapes_encoder) = EncLen(chunk.byte_positions_encoder)
    /\ (IsRegisterInMeta /\ chunk_call.sample_nbytes = None) =>
           /\ EncLen(chunk.shapes_encoder) = EncLen(chunk_before.chunk.shapes_encoder) + 1
           /\ chunk.byte_positions_encoder = chunk_before.chunk.byte_positions_encoder
    /\ IsUpdateInMeta =>
           /\ EncLen(chunk.shapes_encoder) = EncLen(chunk_before.chunk.shapes_encoder)
           /\ EncLen(chunk.byte_positions_encoder) =
                  EncLen(chunk_before.chunk.byte_positions_encoder)

\* An update of a chunk whose counts differ by one registration without length.
C18_Witness ==
    /\ IsUpdateInMeta
    /\ chunk_call.exc = "none"
    /\ chunk_log.without_nbytes = 1
    /\ EncLen(chunk.shapes_encoder) = 2
    /\ EncLen(chunk.byte_positions_encoder) = 1

\* C19: register_in_meta_and_headers increases tensor_meta.length by 1 and the
\* shape header by one entry, update_in_meta_and_headers changes neither the
\* length nor a header count, and tensor_meta.length is its initial value plus
\* the number of registrations.
C19_LengthCountsRegistrations ==
    /\ tensor_meta.length = chunk_log.length0 + chunk_log.registrations
    /\ IsRegisterInMeta =>
           /\ tensor_meta.length = chunk_before.tensor_meta.length + 1
           /\ EncLen(chunk.shapes_encoder) = EncLen(chunk_before.chunk.shapes_encoder) + 1
    /\ IsUpdateInMeta =>
           /\ tensor_meta.length = chunk_before.tensor_meta.length
           /\ EncLen(chunk.shapes_encoder) = EncLen(chunk_before.chunk.shapes_encoder)
           /\ EncLen(chunk.byte_positions_encoder) =
                  EncLen(chunk_before.chunk.byte_positions_encoder)

\* Two registrations in a chunk of a tensor that already held a sample, then
\* an update.
C19_Witness ==
    /\ IsUpdateInMeta
    /\ chunk_call.exc = "none"
    /\ chunk_log.length0 = 1
    /\ chunk_log.registrations = 2
    /\ tensor_meta.length = 3
    /\ chunk.shapes_encoder # chunk_before.chunk.shapes_encoder

\* C20: check_shape_for_update(i, shape) on a stored sample raises
\* TensorInvalidSampleShapeError exactly when shape has another number of
\* dimensions than the shape stored at i, and changes neither the headers, the
\* data bytes nor the tensor meta; update_sample changes the headers only when
\* this validation has passed.
C20_UpdateValidatedFirst ==
    /\ (/\ chunk_call.op = "check_shape_for_update"
        /\ chunk_call.local_sample_index < EncLen(chunk.shapes_encoder)) =>
           /\ chunk_call.exc \in {"none", "TensorInvalidSampleShapeError"}
           /\ chunk_call.exc = "TensorInvalidSampleShapeError" <=>
                  Len(EncLookup(chunk.shapes_encoder, chunk_call.local_sample_index).ret[1])
                      # Len(chunk_call.shape)
    /\ chunk_call.op = "check_shape_for_update" =>
           (chunk = chunk_before.chunk /\ tensor_meta = chunk_before.tensor_meta)
    /\ chunk_call.op = "update_sample" =>
           /\ check_shape_for_update(chunk_before.chunk, chunk_call.local_sample_index,
                                     chunk_call.shape) # "none" =>
                  (chunk = chunk_before.chunk /\ tensor_meta = chunk_before.tensor_meta)
           /\ (\/ chunk.shapes_encoder # chunk_before.chunk.shapes_encoder
               \/ chunk.byte_positions_encoder # chunk_before.chunk.byte_positions_encoder) =>
                  check_shape_for_update(chunk_before.chunk, chunk_call.local_sample_index,
                                         chunk_call.shape) = "none"

C20_Witness ==
    /\ chunk_call.op = "check_shape_for_update"
    /\ chunk_call.exc = "TensorInvalidSampleShapeError"
    /\ chunk_call.local_sample_index = 1
    /\ EncLen(chunk.shapes_encoder) = 2
    /\ Len(chunk.data_bytes) > 0

\* The byte length the byte-position header records for sample j.
RecordedLength(c, j) == EncLookup(c.byte_positions_encoder, j).ret[1]

\* The first byte of sample j when every sample takes its recorded length.
RECURSIVE RecordedStart(_, _)
RecordedStart(c, j) ==
    IF j = 0 THEN 0 ELSE RecordedStart(c, j - 1) + RecordedLength(c, j - 1)

\* The byte-position header describes the data: the recorded lengths add up
\* to the length of the data.
HeaderDescribesData(c) ==
    RecordedStart(c, EncLen(c.byte_positions_encoder)) = Len(c.data_bytes)

\* C21: create_buffer_with_updated_data(i, old_data, new_bytes), called while
\* the byte-position header describes old_data, returns
\* old_data[:start_i] + new_bytes + old_data[end_i:]; its length is
\* len(old_data) + len(new_bytes) - (end_i - start_i), the bytes of every other
\* sample are where they were (before i) or moved as a block (after i), and
\* the call changes neither old_data nor the headers.
C21_BufferSplice ==
    (/\ chunk_call.op = "create_buffer_with_updated_data"
     /\ chunk_call.local_sample_index < EncLen(chunk.byte_positions_encoder)
     /\ HeaderDescribesData(chunk_before.chunk)) =>
        LET i == chunk_call.local_sample_index
            old == chunk_call.old_data
            new == chunk_call.new_sample_bytes
            start == RecordedStart(chunk_before.chunk, i)
            end == start + RecordedLength(chunk_before.chunk, i)
            shift == Len(new) - (end - start)
        IN  /\ chunk_call.exc = "none"
            /\ chunk_call.ret = SubSeq(old, 1, start) \o new \o SubSeq(old, end + 1, Len(old))
            /\ Len(chunk_call.ret) = Len(old) + Len(new) - (end - start)
            /\ \A k \in 1..start : chunk_call.ret[k] = old[k]
            /\ \A k \in (end + 1)..Len(old) : chunk_call.ret[k + shift] = old[k]
            /\ \A k \in 1..Len(new) : chunk_call.ret[start + k] = new[k]
            /\ chunk.data_bytes = old
            /\ chunk = chunk_before.chunk
            /\ tensor_meta = chunk_before.tensor_meta

\* The middle one of three samples is replaced by a longer one.
C21_Witness ==
    /\ chunk_call.op = "create_buffer_with_updated_data"
    /\ chunk_call.local_sample_index = 1
    /\ chunk_call.old_data = <<1, 1, 2, 2, 3, 3>>
    /\ chunk_call.ret = <<1, 1, 255, 255, 255, 255, 255, 3, 3>>

\* C22: frombuffer(chunk.tobytes(), chunk_args), which is copy(chunk_args),
\* gives a chunk with the same rows in the shape header, the same rows in the
\* byte-position header, the same data bytes and the same version tag, for a
\* chunk of any number of samples; an empty buffer gives a fresh chunk with
\* empty headers and no data.
C22_SerializeRoundTrip ==
    /\ chunk_call.op = "copy" =>
           /\ chunk.shapes_encoder = chunk_before.chunk.shapes_encoder
           /\ chunk.byte_positions_encoder = chunk_before.chunk.byte_positions_encoder
           /\ chunk.data_bytes = chunk_before.chunk.data_bytes
           /\ chunk.version = chunk_before.chunk.version
    /\ frombuffer(tobytes(chunk), ChunkArgs(chunk, tensor_meta)).shapes_encoder
           = chunk.shapes_encoder
    /\ (chunk_call.op = "frombuffer" /\ chunk_call.buffer = <<>>) =>
           /\ chunk.shapes_encoder = <<>>
           /\ chunk.byte_positions_encoder = <<>>
           /\ chunk.data_bytes = <<>>
           /\ chunk.version = HubVersion

\* A chunk of an older version with three samples in two runs is copied.
C22_Witness ==
    /\ chunk_call.op = "copy"
    /\ chunk.version = OldVersion
    /\ chunk.byte_positions_encoder = <<(<<2, 2>>), (<<5, 3>>)>>
    /\ Len(chunk.data_bytes) = 9
    /\ chunk.data_is_view

\* C23: in every reachable state of a chunk nbytes is the length of the byte
\* string tobytes() produces, and nbytes reads nothing of the data but its
\* length.
C23_NbytesIsSerializedLength ==
    /\ nbytes(chunk) = Len(tobytes(chunk))
    /\ chunk_call.op = "nbytes" => chunk_call.ret = Len(tobytes(chunk))
    /\ chunk_call.op = "tobytes" => Len(chunk_call.ret) = nbytes(chunk)
    /\ nbytes([chunk EXCEPT !.data_bytes = [k \in 1..Len(@) |-> 0]]) = nbytes(chunk)

C23_Witness ==
    /\ chunk_call.op = "nbytes"
    /\ EncLen(chunk.shapes_encoder) = 3
    /\ Len(chunk.shapes_encoder) = 2
    /\ Len(chunk.data_bytes) = 9
    /\ chunk_call.ret = Len(tobytes(chunk))

\* C26: a chunk read from a buffer holds its data, when there is any, as a view
\* of that buffer until it is prepared for writing; prepare_for_write() leaves
\* a bytearray with the same contents, and leaves the data of a chunk that
\* already holds a bytearray as it is; no write to the chunk changes the
\* buffer it was read from.
C26_CopyOnWrite ==
    /\ chunk_call.op \in {"frombuffer", "copy"} =>
           /\ chunk.data_is_view <=> Len(chunk.data_bytes) > 0
           /\ chunk_call.buffer # <<>> =>
                  chunk.data_bytes = SubSeq(chunk_log.source,
                                            Len(chunk_log.source) - Len(chunk.data_bytes) + 1,
                                            Len(chunk_log.source))
    /\ chunk_call.op = "prepare_for_write" =>
           /\ ~chunk.data_is_view
           /\ chunk.data_bytes = chunk_before.chunk.data_bytes
    /\ (chunk_call.op \in {"extend_if_has_space", "update_sample"}
           /\ chunk.data_bytes # chunk_before.chunk.data_bytes) => ~chunk.data_is_view
    /\ chunk_log.source = chunk_log.source_given

\* A chunk read from a buffer is prepared for writing.
C26_Witness ==
    /\ chunk_call.op = "prepare_for_write"
    /\ chunk_before.chunk.data_is_view
    /\ ~chunk.data_is_view
    /\ chunk_log.source = OldBuffer
    /\ chunk.data_bytes = <<9, 9>>
    /\ chunk.version = HubVersion

\* C24: after any sequence of register(value, count) calls with count >= 0
\* (and of updates), lookup(i) for every 0 <= i < total returns the value of
\* the run that covers i, which is the i-th value registered, and the length
\* of the encoder is the sum of the registered counts.
C24_LookupReturnsRegistered ==
    /\ EncLen(rle) = Len(rle_log.values)
    /\ \A i \in 0..(Len(rle_log.values) - 1) :
           EncLookup(rle, i) = [exc |-> "none", ret |-> Some(rle_log.values[i + 1])]
    /\ (rle_log.call.op = "register" /\ rle_log.call.count >= 0) =>
           /\ rle_log.call.exc = "none"
           /\ EncLen(rle) = EncLen(rle_log.before) + rle_log.call.count

\* Two runs with four values in all, the last registration merged into its run.
C24_Witness ==
    /\ rle_log.call.op = "register"
    /\ rle_log.call.count = 2
    /\ rle_log.values = <<2, 5, 5, 5>>
    /\ rle = <<(<<2, 1>>), (<<5, 4>>)>>

\* C25: after a valid update(i, v) lookup(i) returns v, lookup(j) returns for
\* every other index j what it returned before, the length is unchanged and
\* the cumulative counts are strictly increasing.
C25_UpdateChangesOneIndex ==
    /\ \A r \in 1..Len(rle) : rle[r][2] > (IF r = 1 THEN 0 ELSE rle[r - 1][2])
    /\ (rle_log.call.op = "update" /\ EncInRange(rle_log.before, rle_log.call.local_index)) =>
           /\ rle_log.call.exc = "none"
           /\ EncLookup(rle, rle_log.call.local_index).ret = Some(rle_log.call.value)
           /\ EncLen(rle) = EncLen(rle_log.before)
           /\ \A j \in 0..(EncLen(rle) - 1) :
                  j # EncResolve(rle_log.before, rle_log.call.local_index) =>
                      EncLookup(rle, j) = EncLookup(rle_log.before, j)

\* The middle of a run of three is replaced: the run is split into three rows.
C25_Witness ==
    /\ rle_log.call.op = "update"
    /\ rle_log.before = <<(<<2, 3>>), (<<5, 4>>)>>
    /\ rle = <<(<<2, 1>>), (<<5, 2>>), (<<2, 3>>), (<<5, 4>>)>>

\* C27: a primitive/array-like sample or a Sample object is tiled exactly when
\* it would not fit in an empty chunk: whatever serialize_sample returns as
\* inline bytes of length s satisfies can_fit_sample(s) on a chunk without data
\* bytes, for s = min_chunk_size too.
C27_InlineFitsEmptyChunk ==
    (/\ IsSerialize
     /\ ~chunk.is_text_like
     /\ chunk_call.incoming_sample.kind \in {"Sample", "ndarray"}
     /\ chunk_call.exc = "none"
     /\ num_data_bytes(chunk) = 0) =>
        /\ chunk_call.out.kind = "bytes" => can_fit_sample(chunk, chunk_call.out.nbytes, 0)
        /\ chunk_call.out.kind = "SampleTiles" => ~can_fit_sample(chunk, StoredSize, 0)

\* C28: between __enter__ and __exit__ of a Dataset's with-block
\* storage.autoflush stays False whatever dataset operation runs inside the
\* block, indexing with an int and iterating included; __exit__ sets autoflush
\* and flushes.
C28_AutoflushOffInsideWith ==
    /\ ds.in_with => ~storage.autoflush
    /\ ds.call.op = "__exit__" => storage.autoflush /\ storage.dirty = {}

\* The samples a TransformTensor holds, in order.
Samples(tt) == IF tt.numpy_only THEN Flatten(tt.items) ELSE tt.items

\* C29: for a TransformTensor that is not a group, after any sequence of
\* append(item) and extend(items) calls len(tensor) is the number of samples
\* added, 1 per append and len(items) per extend, and the samples are held in
\* the order they were added; non_numpy_only() keeps len and the order of the
\* samples buffered so far.
C29_LenCountsAddedSamples ==
    ~transform_tensor.is_group =>
        /\ len(transform_tensor) = Len(transform_log.added)
        /\ Samples(transform_tensor) = transform_log.added
        /\ transform_log.call.op \in {"append", "extend"} => transform_log.call.exc = "none"
        /\ transform_log.call.op = "non_numpy_only" =>
               /\ ~transform_tensor.numpy_only
               /\ len(transform_tensor) = len(transform_log.before)
               /\ transform_tensor.items = Samples(transform_log.before)

\* Two batches, one of them empty, and a third sample are chained into a list.
C29_Witness ==
    /\ ~transform_tensor.is_group
    /\ transform_log.call.op = "non_numpy_only"
    /\ transform_log.before.numpy_only
    /\ transform_log.before.items = <<(<<1, 2>>), <<>>, (<<3>>)>>
    /\ transform_tensor.items = <<1, 2, 3>>

\* C30: in numpy-only mode with one or more batches, indexing with an int idx
\* in [-len, len) returns the sample the flattened list of non_numpy_only()
\* holds at idx, and an idx outside that range raises IndexError in both modes.
C30_NumpyIndexMatchesItems ==
    (/\ transform_log.call.op = "numpy_compressed"
     /\ transform_tensor.numpy_only
     /\ transform_tensor.idx.kind = "int"
     /\ Len(transform_tensor.items) >= 1) =>
        LET flat == numpy_compressed(non_numpy_only(transform_tensor))
        IN  /\ transform_log.call.exc = flat.exc
            /\ transform_log.call.ret = flat.ret
            /\ transform_tensor.idx.value \notin
                   (-len(transform_tensor))..(len(transform_tensor) - 1)
                       => transform_log.call.exc = "IndexError"

\* C31: the mode switch of a TransformTensor is one-way: once numpy_only is
\* False it is never True again.  While numpy_only is True cum_sizes has one
\* entry per buffered batch, is non-decreasing, and its entry k is the total
\* length of the batches 0..k; while numpy_only is False cum_sizes is empty.
C31_ModeSwitchOneWay ==
    /\ ~transform_log.before.numpy_only => ~transform_tensor.numpy_only
    /\ transform_tensor.numpy_only =>
           /\ Len(transform_tensor.cum_sizes) = Len(transform_tensor.items)
           /\ \A k \in 1..Len(transform_tensor.cum_sizes) :
                  transform_tensor.cum_sizes[k]
                      = Len(Flatten(SubSeq(transform_tensor.items, 1, k)))
           /\ \A k \in 2..Len(transform_tensor.cum_sizes) :
                  transform_tensor.cum_sizes[k - 1] <= transform_tensor.cum_sizes[k]
    /\ ~transform_tensor.numpy_only => transform_tensor.cum_sizes = <<>>

\* Three batches, the second of them empty, are buffered in numpy-only mode.
C31_Witness ==
    /\ transform_log.call.op = "extend"
    /\ transform_tensor.numpy_only
    /\ transform_tensor.items = <<(<<1, 2>>), <<>>, (<<3>>)>>
    /\ transform_tensor.cum_sizes = <<2, 2, 3>>

\* C32: on a TransformTensor that is a group every attempt to add data,
\* append(item), extend(list) or extend(ndarray), raises
\* TensorDoesNotExistError, leaves items, cum_sizes and numpy_only as they
\* were and makes no call of dataset.item_added.
C32_GroupRejectsData ==
    (transform_tensor.is_group /\ transform_log.call.op \in {"append", "extend"}) =>
        /\ transform_log.call.exc = "TensorDoesNotExistError"
        /\ transform_tensor.items = transform_log.before.items
        /\ transform_tensor.cum_sizes = transform_log.before.cum_sizes
        /\ transform_tensor.numpy_only = transform_log.before.numpy_only
        /\ transform_log.call.item_added = 0

====
